---------------------------- MODULE Spec2Model ----------------------------
(***************************************************************************)
(* Model of the tab clustering service: the in-memory cluster engine       *)
(* (agents/tab_clusterer.py, agents/models.py), the SQLite graph store     *)
(* (graph/database.py) and the request handlers that drive them            *)
(* (server/app.py).                                                        *)
(*                                                                         *)
(* Embeddings are two-dimensional integer vectors.  Similarities are kept  *)
(* in hundredths (1.0 is 100), a centroid is the exact rational mean       *)
(* sum/n kept in lowest terms.                                             *)
(***************************************************************************)
EXTENDS Integers, Sequences, FiniteSets, TLC

(* ------------------------------ bounds -------------------------------- *)

MaxTab == 3
MaxBatch == 3
MaxRequests == 2
MaxClusterId == 4
MaxEntityId == 4
\* engine-level scenarios: tab ids and calls per run
MaxEngineTab == 4
MaxEngineCalls == 4
\* palette scenario: clusters created in one engine's life
MaxCreated == 11
\* event-loop scenario: ingest requests in flight together
MaxInFlight == 2

(* -------------------------- program constants ------------------------- *)

\* get_clusterer(): similarity_threshold=0.50, in hundredths
similarity_threshold == 50
\* get_clusterer(): entity_weight=0.5, in hundredths
entity_weight == 50
\* get_clusterer(): rename_threshold=3
configured_rename_threshold == 3
\* create_new_cluster(): self.rename_threshold = 999 while naming is deferred
deferred_rename_threshold == 999
\* len(list(ClusterColor))
color_pool_size == 9
\* sqlite3 leaves foreign-key enforcement off unless the connection issues
\* PRAGMA foreign_keys = ON; KnowledgeGraphDB.__init__ never does.
foreign_keys == FALSE

\* settings.enable_background_enrichment, read by ingest_tabs
enable_background_enrichment == TRUE

PlaceholderName == "New Cluster"
DefaultEntityType == "Concept"

(* ------------------------------ inputs -------------------------------- *)

TabIds == 1..MaxTab
EntityNames == {"a", "b"}
EntityTypes == {"Concept", "Tool"}
NoEmbedding == <<>>

\* what the embedding and extraction services return for a page
\* (title + URL): an embedding and a non-empty entity list
TabContents ==
    { [embedding |-> <<1, 0>>, entities |-> <<"a">>],
      [embedding |-> <<1, 1>>, entities |-> <<"a", "b">>],
      [embedding |-> <<0, 1>>, entities |-> <<"a", "b">>] }

\* the embedding service applied to an entity name
NameEmbedding(name) == IF name = "a" THEN <<0, 1>> ELSE <<-1, 0>>

MkTab(i, c) == [id |-> i, embedding |-> c.embedding, entities |-> c.entities]

(* ------------------------------ helpers ------------------------------- *)

Range(s) == { s[i] : i \in 1..Len(s) }

RECURSIVE SeqOfSet(_)
\* a set of integers or of strings as a sequence, in TLC's fixed choice order
SeqOfSet(S) == IF S = {} THEN <<>>
               ELSE LET x == CHOOSE y \in S : TRUE IN <<x>> \o SeqOfSet(S \ {x})

Abs(x) == IF x < 0 THEN -x ELSE x

RECURSIVE Gcd(_, _)
Gcd(a, b) == IF b = 0 THEN a ELSE Gcd(b, a % b)

ISqrt(n) == CHOOSE k \in 0..100 : k * k <= n /\ (k + 1) * (k + 1) > n

Dot(u, v) == u[1] * v[1] + u[2] * v[2]

RECURSIVE VecSum(_)
VecSum(vs) == IF vs = <<>> THEN <<0, 0>>
              ELSE LET r == VecSum(Tail(vs)) IN <<vs[1][1] + r[1], vs[1][2] + r[2]>>

\* the rational vector s/n in lowest terms
Reduced(s, n) ==
    LET Over(g) == [sum |-> <<s[1] \div g, s[2] \div g>>, n |-> n \div g]
    IN Over(Gcd(Gcd(Abs(s[1]), Abs(s[2])), n))

\* np.mean(vectors, axis=0) of a non-empty list of vectors
Mean(vs) == Reduced(VecSum(vs), Len(vs))

NoCentroid == [sum |-> <<0, 0>>, n |-> 0]

(* ------------------------ similarity (TabClusterer) ------------------- *)

\* _cosine_similarity, in hundredths; the centroid enters by its direction
_cosine_similarity(e1, e2) ==
    LET d  == Dot(e1, e2)
        n1 == Dot(e1, e1)
        n2 == Dot(e2, e2)
    IN IF n1 = 0 \/ n2 = 0 THEN 0
       ELSE LET m == ISqrt((10000 * d * d) \div (n1 * n2))
            IN IF d < 0 THEN -m ELSE m

\* _entity_overlap_score: Jaccard, in hundredths
_entity_overlap_score(entities1, entities2) ==
    IF entities1 = <<>> \/ entities2 = <<>> THEN 0
    ELSE LET s1 == Range(entities1)
             s2 == Range(entities2)
         IN (100 * Cardinality(s1 \cap s2)) \div Cardinality(s1 \cup s2)

\* _hybrid_similarity, in ten-thousandths
_hybrid_similarity(e1, e2, entities1, entities2) ==
    (100 - entity_weight) * _cosine_similarity(e1, e2)
        + entity_weight * _entity_overlap_score(entities1, entities2)

(* --------------------------- program state ---------------------------- *)

VARIABLES
    clusters,             \* TabClusterer.clusters: the live clusters, in list order
    next_color_index,     \* TabClusterer._next_color_index
    rename_threshold,     \* TabClusterer.rename_threshold
    next_cluster_id,      \* number of clusters created so far + 1 (ids are fresh uuids)
    tabs,                 \* table tabs: tab id -> row, or NoRow
    entities,             \* table entities: set of rows
    tab_entities,         \* table tab_entities: set of <<tab_id, entity_id>>
    entity_tab_contexts,  \* table entity_tab_contexts: set of <<entity_id, tab_id>>
    tab_relationships,    \* table tab_relationships: set of rows
    next_entity_id,       \* AUTOINCREMENT sequence of entities.id
    background_tasks,     \* enrichment tasks queued by ingest, not yet run
    last_op,              \* the operation that ran last
    requests,             \* number of requests handled so far
    calls,                \* what the last operation did to clusters and asked of services
    event_loop,           \* the ingest coroutines in flight and the one holding the loop
    probe                 \* the last call of a function examined alone: input and outcome

vars == <<clusters, next_color_index, rename_threshold, next_cluster_id, tabs,
          entities, tab_entities, entity_tab_contexts, tab_relationships,
          next_entity_id, background_tasks, last_op, requests, calls, event_loop,
          probe>>

\* no function has been examined alone
NoProbe == [fn |-> "none"]

NoRow == [exists |-> FALSE, is_active |-> FALSE, closed_at |-> FALSE]

\* nothing done yet: cluster_events lists, in order, the tab additions
\* ("add") and the name generations ("name") with the cluster id and the
\* number of tabs the cluster then held, enrichment the entity names sent to
\* the enrichment agent, embedding and extraction the tab-id sets of the batch
\* calls to the embedding model and to the entity extractor
NoCalls == [cluster_events |-> <<>>, enrichment |-> <<>>,
            embedding |-> <<>>, extraction |-> <<>>]

\* the event loop with no ingest in flight: running is the request whose
\* coroutine holds the loop (0 for none); each handler has its position, its
\* batch, and the engine and store as its last step left them
RequestIds == 1..MaxInFlight
IdleLoop == [running |-> 0,
             handlers |-> [r \in RequestIds |->
                              [pc |-> "idle", batch |-> <<>>, left |-> <<>>]]]

\* the engine and the store as one value, threaded through the operations
World == [clusters |-> clusters, next_color_index |-> next_color_index,
          rename_threshold |-> rename_threshold, next_cluster_id |-> next_cluster_id,
          tabs |-> tabs, entities |-> entities, tab_entities |-> tab_entities,
          entity_tab_contexts |-> entity_tab_contexts,
          tab_relationships |-> tab_relationships, next_entity_id |-> next_entity_id,
          calls |-> NoCalls]

(* --------------------------- graph store ------------------------------ *)

\* KnowledgeGraphDB.add_tab: insert, or update and re-activate an existing row
DbAddTab(W, tab_id) ==
    [W EXCEPT !.tabs[tab_id] = [exists |-> TRUE, is_active |-> TRUE, closed_at |-> FALSE]]

\* a close_tab whose UPDATE matches no row
DbCloseTab_NoMatch(W, tab_id) == W

\* KnowledgeGraphDB.close_tab: UPDATE ... WHERE id = ? AND is_active = 1
DbCloseTab(W, tab_id) ==
    IF W.tabs[tab_id].exists /\ W.tabs[tab_id].is_active
    THEN [W EXCEPT !.tabs[tab_id] = [exists |-> TRUE, is_active |-> FALSE, closed_at |-> TRUE]]
    ELSE W

\* KnowledgeGraphDB.remove_tab: DELETE FROM tabs; the ON DELETE CASCADE clauses
\* of the dependent tables act only under foreign-key enforcement
DbRemoveTab(W, tab_id) ==
    LET W1 == [W EXCEPT !.tabs[tab_id] = NoRow]
    IN IF foreign_keys
       THEN [W1 EXCEPT
               !.tab_entities = { l \in @ : l[1] # tab_id },
               !.entity_tab_contexts = { x \in @ : x[2] # tab_id },
               !.tab_relationships = { r \in @ : r.tab_id_1 # tab_id /\ r.tab_id_2 # tab_id }]
       ELSE W1

\* KnowledgeGraphDB.get_active_tabs (ids only)
DbActiveTabs(W) == { t \in DOMAIN W.tabs : W.tabs[t].exists /\ W.tabs[t].is_active }

\* an orphan rule that counts only the links of active tabs
DbOrphanedEntities_ActiveOnly(W) ==
    { e.id : e \in { x \in W.entities :
                       \A l \in W.tab_entities :
                          l[2] = x.id => ~(W.tabs[l[1]].exists /\ W.tabs[l[1]].is_active) } }

\* KnowledgeGraphDB.get_orphaned_entities: entities LEFT JOIN tab_entities
DbOrphanedEntities(W) ==
    { e.id : e \in { x \in W.entities : \A l \in W.tab_entities : l[2] # x.id } }

\* KnowledgeGraphDB.remove_orphaned_entities
DbRemoveOrphanedEntities(W) ==
    LET orphaned == DbOrphanedEntities(W)
        W1 == [W EXCEPT !.entities = { e \in @ : e.id \notin orphaned }]
    IN IF foreign_keys
       THEN [W1 EXCEPT !.entity_tab_contexts = { x \in @ : x[1] \notin orphaned }]
       ELSE W1

\* KnowledgeGraphDB.find_entity_by_name without a type: the first row of that
\* name (rows of one name come back in id order), 0 when there is none
DbFindEntityByName(W, name) ==
    LET ids == { e.id : e \in { x \in W.entities : x.name = name } }
    IN IF ids = {} THEN 0 ELSE CHOOSE i \in ids : \A j \in ids : i <= j

\* entities.enriched_at is modelled by its age: "NULL", "recent" (within
\* cache_ttl of now), "expired" (longer ago than cache_ttl)
\* a description is modelled by the prompt it answers: NULL, the description
\* of the name alone, the description of the name in the context of a tab
NoDescription == 0
GenericDescription == -1
ContextDescription(tab_id) == tab_id

\* KnowledgeGraphDB.add_entity: INSERT OR IGNORE under UNIQUE(name, entity_type)
DbAddEntity(W, name, entity_type, is_enriched, embedding) ==
    IF \E e \in W.entities : e.name = name /\ e.entity_type = entity_type
    THEN W
    ELSE [W EXCEPT
            !.entities = @ \cup { [id |-> W.next_entity_id, name |-> name,
                                   entity_type |-> entity_type,
                                   is_enriched |-> is_enriched,
                                   web_description |->
                                      IF is_enriched THEN GenericDescription
                                      ELSE NoDescription,
                                   enriched_at |->
                                      IF is_enriched THEN "recent" ELSE "NULL",
                                   embedding |-> embedding] },
            !.next_entity_id = @ + 1]

\* KnowledgeGraphDB.link_tab_to_entity: upsert of the (tab, entity) link
DbLinkTabToEntity(W, tab_id, entity_id) ==
    [W EXCEPT !.tab_entities = @ \cup { <<tab_id, entity_id>> }]

\* KnowledgeGraphDB.save_entity_tab_context: INSERT OR REPLACE
DbSaveEntityTabContext(W, entity_id, tab_id) ==
    [W EXCEPT !.entity_tab_contexts = @ \cup { <<entity_id, tab_id>> }]

\* KnowledgeGraphDB.update_entity_enrichment: the UPDATE also sets entity_type
\* and fails on UNIQUE(name, entity_type) when another row holds that pair
DbUpdateEntityEnrichment(W, entity_id, web_description, entity_type) ==
    LET row == CHOOSE e \in W.entities : e.id = entity_id
    IN IF ~ \E e \in W.entities : e.id = entity_id THEN W
       ELSE IF \E e \in W.entities :
                 e.id # entity_id /\ e.name = row.name /\ e.entity_type = entity_type
       THEN W
       ELSE [W EXCEPT !.entities = (@ \ {row}) \cup
               { [row EXCEPT !.web_description = web_description,
                             !.entity_type = entity_type,
                             !.is_enriched = TRUE,
                             !.enriched_at = "recent"] }]

\* KnowledgeGraphDB.get_entities_for_tab: names of entities JOIN tab_entities
DbEntityNamesForTab(W, tab_id) ==
    { e.name : e \in { x \in W.entities : <<tab_id, x.id>> \in W.tab_entities } }

\* KnowledgeGraphDB.find_tabs_with_shared_entities with min_shared = 1:
\* tabs t1 JOIN tab_entities te1 JOIN tab_entities te2 JOIN tabs t2
DbTabsWithSharedEntities(W, tab_id) ==
    IF ~ W.tabs[tab_id].exists THEN {}
    ELSE { t2 \in DOMAIN W.tabs \ {tab_id} :
             /\ W.tabs[t2].exists
             /\ \E l1 \in W.tab_entities, l2 \in W.tab_entities :
                   l1[1] = tab_id /\ l2[1] = t2 /\ l1[2] = l2[2] }

\* KnowledgeGraphDB.update_tab_relationship: canonical order, then upsert
DbUpdateTabRelationship(W, id1, id2, shared, strength) ==
    LET lo == IF id1 > id2 THEN id2 ELSE id1
        hi == IF id1 > id2 THEN id1 ELSE id2
    IN [W EXCEPT !.tab_relationships =
          { r \in @ : ~ (r.tab_id_1 = lo /\ r.tab_id_2 = hi) } \cup
          { [tab_id_1 |-> lo, tab_id_2 |-> hi, shared_entities |-> shared,
             shared_entity_count |-> Cardinality(shared),
             relationship_strength |-> strength] }]

RECURSIVE StoreRelationships(_, _, _)
StoreRelationships(W, tab_id, related) ==
    IF related = <<>> THEN W
    ELSE LET mine   == DbEntityNamesForTab(W, tab_id)
             theirs == DbEntityNamesForTab(W, Head(related))
             shared == mine \cap theirs
             W1 == DbUpdateTabRelationship(W, tab_id, Head(related), shared,
                       <<Cardinality(shared), Cardinality(mine \cup theirs)>>)
         IN StoreRelationships(W1, tab_id, Tail(related))

\* KnowledgeGraphDB.compute_and_store_tab_relationships
DbComputeAndStoreTabRelationships(W, tab_id) ==
    IF DbEntityNamesForTab(W, tab_id) = {} THEN W
    ELSE StoreRelationships(W, tab_id, SeqOfSet(DbTabsWithSharedEntities(W, tab_id)))

\* KnowledgeGraphDB.get_entities_by_names, reduced to the embeddings the
\* caller keeps: one per row that has one
DbEntityEmbeddings(W, names) ==
    LET rows == { e \in W.entities : e.name \in names /\ e.embedding # NoEmbedding }
        ids  == SeqOfSet({ e.id : e \in rows })
    IN [i \in 1..Len(ids) |-> (CHOOSE e \in rows : e.id = ids[i]).embedding]

(* ------------------------ TabCluster (models.py) ---------------------- *)

\* TabCluster._get_entity_embeddings
_get_entity_embeddings(c, W) ==
    LET names == UNION { Range(c.tabs[i].entities) : i \in 1..Len(c.tabs) }
    IN IF names = {} THEN <<>> ELSE DbEntityEmbeddings(W, names)

\* TabCluster.update_centroid(graph_db): entity embeddings first, then the
\* tabs' own embeddings, else no centroid
update_centroid(c, W) ==
    IF c.tabs = <<>> THEN [c EXCEPT !.centroid_embedding = NoCentroid]
    ELSE LET entity_embeddings == _get_entity_embeddings(c, W)
             have == SelectSeq(c.tabs, LAMBDA t : t.embedding # NoEmbedding)
             tab_embeddings == [i \in 1..Len(have) |-> have[i].embedding]
         IN IF entity_embeddings # <<>>
            THEN [c EXCEPT !.centroid_embedding = Mean(entity_embeddings)]
            ELSE IF tab_embeddings # <<>>
            THEN [c EXCEPT !.centroid_embedding = Mean(tab_embeddings)]
            ELSE [c EXCEPT !.centroid_embedding = NoCentroid]

\* an addition that leaves the counter alone
add_tab_Uncounted(c, tab) ==
    IF \E i \in 1..Len(c.tabs) : c.tabs[i].id = tab.id THEN c
    ELSE [c EXCEPT !.tabs = Append(@, tab), !.tab_count = @ + 1]

\* an addition that does not look for the id in the list
add_tab_Unchecked(c, tab) ==
    [c EXCEPT !.tabs = Append(@, tab),
              !.tab_count = @ + 1,
              !.tabs_added_since_naming = @ + 1]

\* TabCluster.add_tab: a tab id already in the list is not added again
add_tab(c, tab) ==
    IF \E i \in 1..Len(c.tabs) : c.tabs[i].id = tab.id THEN c
    ELSE [c EXCEPT !.tabs = Append(@, tab),
                   !.tab_count = @ + 1,
                   !.tabs_added_since_naming = @ + 1]

\* TabCluster.remove_tab: the cluster without that tab id
remove_tab(c, tab_id) ==
    LET kept == SelectSeq(c.tabs, LAMBDA t : t.id # tab_id)
    IN IF Len(kept) < Len(c.tabs)
       THEN [c EXCEPT !.tabs = kept, !.tab_count = Len(kept)]
       ELSE c

\* a deletion mark that spares single-tab clusters
mark_for_deletion_WhenEmpty(c) == c.tab_count < 1

\* TabCluster.mark_for_deletion
mark_for_deletion(c) == c.tab_count < 2

\* a rename check that waits for one addition more
should_regenerate_name_Late(c, threshold) == c.tabs_added_since_naming > threshold

\* TabCluster.should_regenerate_name
should_regenerate_name(c, threshold) == c.tabs_added_since_naming >= threshold

(* ---------------------- TabClusterer (tab_clusterer.py) --------------- *)

RECURSIVE Flatten(_)
Flatten(ss) == IF ss = <<>> THEN <<>> ELSE Head(ss) \o Flatten(Tail(ss))

RECURSIVE Dedupe(_)
\* the keys of a dict in insertion order
Dedupe(s) == IF s = <<>> THEN <<>>
             ELSE LET r == Dedupe(SelectSeq(Tail(s), LAMBDA x : x # Head(s)))
                  IN <<Head(s)>> \o r

RECURSIVE ByCountDesc(_, _, _)
\* sorted(shared, key=count, reverse=True): stable, highest count first
ByCountDesc(keys, count, k) ==
    IF k = 0 THEN <<>>
    ELSE SelectSeq(keys, LAMBDA e : count[e] = k) \o ByCountDesc(keys, count, k - 1)

\* TabClusterer._update_cluster_shared_entities
_update_cluster_shared_entities(c) ==
    IF c.tabs = <<>> THEN [c EXCEPT !.shared_entities = <<>>]
    ELSE LET all   == Flatten([i \in 1..Len(c.tabs) |-> c.tabs[i].entities])
             keys  == Dedupe(all)
             count == [e \in Range(keys) |->
                          Cardinality({ i \in 1..Len(all) : all[i] = e })]
             min_occurrences == IF Len(c.tabs) > 1 THEN 2 ELSE 1
             shared == SelectSeq(keys, LAMBDA e : count[e] >= min_occurrences)
         IN [c EXCEPT !.shared_entities = ByCountDesc(shared, count, Len(all))]

\* the similarity find_best_cluster computes for one cluster, in ten-thousandths
ClusterSimilarity(c, tab) ==
    IF entity_weight > 0 /\ tab.entities # <<>> /\ c.shared_entities # <<>>
    THEN _hybrid_similarity(tab.embedding, c.centroid_embedding.sum,
                            tab.entities, c.shared_entities)
    ELSE 100 * _cosine_similarity(tab.embedding, c.centroid_embedding.sum)

\* a find_best_cluster in which, of several best clusters, the last one wins
find_best_cluster_LastWins(W, tab) ==
    LET cs == W.clusters
        with == { i \in 1..Len(cs) : cs[i].centroid_embedding # NoCentroid }
        best == { i \in with : \A j \in with :
                     ClusterSimilarity(cs[j], tab) <= ClusterSimilarity(cs[i], tab) }
        last == CHOOSE i \in best : \A j \in best : j <= i
    IN  IF tab.embedding = NoEmbedding \/ with = {} THEN 0
        ELSE IF ClusterSimilarity(cs[last], tab) >= 100 * similarity_threshold THEN last
        ELSE 0

RECURSIVE BestFrom(_, _, _, _, _)
\* the loop of find_best_cluster: a later cluster wins only by a greater score
BestFrom(cs, tab, i, best_cluster, best_similarity) ==
    IF i > Len(cs) THEN <<best_cluster, best_similarity>>
    ELSE IF cs[i].centroid_embedding = NoCentroid
    THEN BestFrom(cs, tab, i + 1, best_cluster, best_similarity)
    ELSE LET similarity == ClusterSimilarity(cs[i], tab)
         IN IF similarity > best_similarity
            THEN BestFrom(cs, tab, i + 1, i, similarity)
            ELSE BestFrom(cs, tab, i + 1, best_cluster, best_similarity)

\* TabClusterer.find_best_cluster: the index of the cluster to join, 0 for none
find_best_cluster(W, tab) ==
    IF tab.embedding = NoEmbedding THEN 0
    ELSE IF W.clusters = <<>> THEN 0
    ELSE LET Pick(best) == IF best[2] >= 100 * similarity_threshold THEN best[1] ELSE 0
         IN Pick(BestFrom(W.clusters, tab, 1, 0, -10000))

\* what the naming model answers
GeneratedName == "Generated"

\* TabClusterer.generate_cluster_name is called for cluster c
generate_cluster_name(W, c) ==
    [W EXCEPT !.calls.cluster_events =
                  Append(@, [kind |-> "name", cluster |-> c.id, tabs |-> Len(c.tabs)])]

\* TabCluster.add_tab appended the tab to cluster c (nothing for a tab id
\* the cluster already lists)
Appended(W, c, tab) ==
    IF \E i \in 1..Len(c.tabs) : c.tabs[i].id = tab.id THEN W
    ELSE [W EXCEPT !.calls.cluster_events =
                       Append(@, [kind |-> "add", cluster |-> c.id,
                                  tabs |-> Len(c.tabs) + 1])]

\* TabClusterer._enrich_entity_async: a successful answer is saved as the
\* (entity, tab) context and as the entity's global fields; a failing store
\* write is swallowed
_enrich_entity_async(W, entity_id, entity_name, tab, agent) ==
    LET Asked(W1) ==
            IF agent[entity_name] = "fail" THEN W1
            ELSE DbUpdateEntityEnrichment(DbSaveEntityTabContext(W1, entity_id, tab.id),
                                          entity_id, ContextDescription(tab.id),
                                          agent[entity_name])
    IN Asked([W EXCEPT !.calls.enrichment = Append(@, entity_name)])

RECURSIVE StoreEntities(_, _, _, _)
\* the loop of _store_tab_in_graph over tab.entities
StoreEntities(W, tab, names, agent) ==
    IF names = <<>> THEN W
    ELSE LET name  == Head(names)
             found == DbFindEntityByName(W, name)
             W1 == IF found = 0
                   THEN _enrich_entity_async(
                            DbAddEntity(W, name, DefaultEntityType, FALSE, NoEmbedding),
                            W.next_entity_id, name, tab, agent)
                   ELSE IF <<found, tab.id>> \notin W.entity_tab_contexts
                   THEN _enrich_entity_async(W, found, name, tab, agent)
                   ELSE W
             entity_id == IF found = 0 THEN W.next_entity_id ELSE found
         IN StoreEntities(DbLinkTabToEntity(W1, tab.id, entity_id), tab, Tail(names), agent)

\* TabClusterer._store_tab_in_graph
_store_tab_in_graph(W, tab, agent) ==
    LET Relate(W1) ==
            IF tab.entities # <<>> THEN DbComputeAndStoreTabRelationships(W1, tab.id)
            ELSE W1
    IN Relate(StoreEntities(DbAddTab(W, tab.id), tab, tab.entities, agent))

\* TabClusterer.add_tab_to_cluster on a cluster object: the world after the
\* store writes, and the cluster after the addition
add_tab_to_cluster(W, c, tab, agent) ==
    LET Rename(W1, c1) ==
            IF should_regenerate_name(c1, W.rename_threshold)
            THEN [w |-> generate_cluster_name(W1, c1),
                  c |-> [c1 EXCEPT !.name = GeneratedName, !.tabs_added_since_naming = 0]]
            ELSE [w |-> W1, c |-> c1]
    IN Rename(_store_tab_in_graph(Appended(W, c, tab), tab, agent),
              _update_cluster_shared_entities(update_centroid(add_tab(c, tab), W)))

\* add_tab_to_cluster on the live cluster at index i
AddToLive(W, i, tab, agent) ==
    LET Put(r) == [r.w EXCEPT !.clusters[i] = r.c]
    IN Put(add_tab_to_cluster(W, W.clusters[i], tab, agent))

RemoveAt(s, i) == SubSeq(s, 1, i - 1) \o SubSeq(s, i + 1, Len(s))

\* a removal that leaves the centroid as it was (the ghost-cluster fault)
remove_tab_from_cluster_StaleCentroid(W, i, tab_id) ==
    LET Drop(c2) ==
            IF mark_for_deletion(c2)
            THEN [DbRemoveTab(W, tab_id) EXCEPT !.clusters = RemoveAt(@, i)]
            ELSE [DbRemoveTab(W, tab_id) EXCEPT !.clusters[i] = c2]
        Removed(c, c1) ==
            IF Len(c1.tabs) = Len(c.tabs) THEN W
            ELSE Drop(_update_cluster_shared_entities(c1))
    IN Removed(W.clusters[i], remove_tab(W.clusters[i], tab_id))

\* a removal that asks for a new name for the cluster it shrank
remove_tab_from_cluster_Renaming(W, i, tab_id) ==
    LET Drop(c2) ==
            IF mark_for_deletion(c2)
            THEN [DbRemoveTab(W, tab_id) EXCEPT !.clusters = RemoveAt(@, i)]
            ELSE [generate_cluster_name(DbRemoveTab(W, tab_id), c2)
                     EXCEPT !.clusters[i] = [c2 EXCEPT !.name = "Renamed"]]
        Removed(c, c1) ==
            IF Len(c1.tabs) = Len(c.tabs) THEN W
            ELSE Drop(_update_cluster_shared_entities(update_centroid(c1, W)))
    IN Removed(W.clusters[i], remove_tab(W.clusters[i], tab_id))

\* TabClusterer.remove_tab_from_cluster on the live cluster at index i
remove_tab_from_cluster(W, i, tab_id) ==
    LET Drop(c2) ==
            IF mark_for_deletion(c2)
            THEN [DbRemoveTab(W, tab_id) EXCEPT !.clusters = RemoveAt(@, i)]
            ELSE [DbRemoveTab(W, tab_id) EXCEPT !.clusters[i] = c2]
        Removed(c, c1) ==
            IF Len(c1.tabs) = Len(c.tabs) THEN W
            ELSE Drop(_update_cluster_shared_entities(update_centroid(c1, W)))
    IN Removed(W.clusters[i], remove_tab(W.clusters[i], tab_id))

\* the first live cluster that holds the tab id, 0 for none
HolderOf(W, tab_id) ==
    LET holders == { i \in 1..Len(W.clusters) :
                       \E j \in 1..Len(W.clusters[i].tabs) : W.clusters[i].tabs[j].id = tab_id }
    IN IF holders = {} THEN 0 ELSE CHOOSE i \in holders : \A k \in holders : i <= k

\* TabClusterer.remove_tab: only the first cluster that holds the tab is touched
clusterer_remove_tab(W, tab_id) ==
    LET From(i) == IF i = 0 THEN W ELSE remove_tab_from_cluster(W, i, tab_id)
    IN From(HolderOf(W, tab_id))

\* a palette that hands out again the first color no live cluster wears
_get_next_color_Reclaiming(W) ==
    LET worn == { W.clusters[k].color : k \in 1..Len(W.clusters) } \cup {W.next_color_index}
        free == (0..(color_pool_size - 1)) \ worn
    IN IF free = {} THEN (W.next_color_index + 1) % color_pool_size
       ELSE CHOOSE x \in free : \A y \in free : x <= y

\* TabClusterer._get_next_color
_get_next_color(W) == (W.next_color_index + 1) % color_pool_size

\* TabClusterer.create_new_cluster
create_new_cluster(W, tab, initial_name, defer_naming, agent) ==
    LET cluster == [id |-> W.next_cluster_id,
                    name |-> IF initial_name # "" THEN initial_name ELSE PlaceholderName,
                    color |-> W.next_color_index,
                    tabs |-> <<>>,
                    shared_entities |-> <<>>,
                    tab_count |-> 0,
                    tabs_added_since_naming |-> 0,
                    centroid_embedding |-> NoCentroid]
        W0 == [W EXCEPT !.next_color_index = _get_next_color(W),
                        !.next_cluster_id = @ + 1,
                        !.rename_threshold =
                            IF defer_naming THEN deferred_rename_threshold ELSE @]
        Named(r) == IF initial_name = "" /\ ~ defer_naming
                    THEN [w |-> generate_cluster_name(r.w, r.c),
                          c |-> [r.c EXCEPT !.name = GeneratedName,
                                            !.tabs_added_since_naming = 0]]
                    ELSE r
        Put(r) == [r.w EXCEPT !.rename_threshold = W.rename_threshold,
                              !.clusters = Append(@, r.c)]
        Added(r) == Put(Named(r))
    IN Added(add_tab_to_cluster(W0, cluster, tab, agent))

\* TabClusterer.process_tab (the tab arrives with embedding and entities)
process_tab(W, tab, agent) ==
    LET Assign(best_cluster) ==
            IF best_cluster # 0 THEN AddToLive(W, best_cluster, tab, agent)
            ELSE create_new_cluster(W, tab, "", FALSE, agent)
    IN Assign(find_best_cluster(W, tab))

RECURSIVE AssignAll(_, _, _)
\* the assignment loop of process_tabs_batch, in batch order
AssignAll(W, batch, agent) ==
    IF batch = <<>> THEN W
    ELSE LET Assign(tab, best_cluster) ==
                 IF best_cluster # 0 THEN AddToLive(W, best_cluster, tab, agent)
                 ELSE create_new_cluster(W, tab, "", TRUE, agent)
         IN AssignAll(Assign(Head(batch), find_best_cluster(W, Head(batch))),
                      Tail(batch), agent)

\* what the embedding model answers for the page of a tab (its title and url)
PageEmbedding(tab_id) == IF tab_id % 2 = 1 THEN <<1, 0>> ELSE <<0, 1>>

\* what the entity extractor answers for the page of a tab
PageEntities(tab_id) == IF tab_id % 2 = 1 THEN <<"a">> ELSE <<"a", "b">>

\* the ids of a list of tabs, in list order
IdsOf(tab_list) == [i \in 1..Len(tab_list) |-> tab_list[i].id]

\* an embedding step that asks the model once per tab without embedding
embed_missing_OneByOne(W, batch) ==
    LET ids == IdsOf(SelectSeq(batch, LAMBDA t : t.embedding = NoEmbedding))
    IN [w |-> [W EXCEPT !.calls.embedding = @ \o [i \in 1..Len(ids) |-> <<ids[i]>>]],
        batch |-> [i \in 1..Len(batch) |->
                     IF batch[i].embedding = NoEmbedding
                     THEN [batch[i] EXCEPT !.embedding = PageEmbedding(batch[i].id)]
                     ELSE batch[i]]]

\* process_tabs_batch, embedding block: one generate_embeddings_batch call for
\* the tabs without embedding, none when every tab has one
embed_missing(W, batch) ==
    LET ids == IdsOf(SelectSeq(batch, LAMBDA t : t.embedding = NoEmbedding))
    IN IF ids = <<>> THEN [w |-> W, batch |-> batch]
       ELSE [w |-> [W EXCEPT !.calls.embedding = Append(@, ids)],
             batch |-> [i \in 1..Len(batch) |->
                          IF batch[i].embedding = NoEmbedding
                          THEN [batch[i] EXCEPT !.embedding = PageEmbedding(batch[i].id)]
                          ELSE batch[i]]]

\* process_tabs_batch, extraction block: one extract_entities_batch call for
\* the tabs without entities, none when every tab has some
extract_missing(r) ==
    LET ids == IdsOf(SelectSeq(r.batch, LAMBDA t : t.entities = <<>>))
    IN IF ids = <<>> THEN r
       ELSE [w |-> [r.w EXCEPT !.calls.extraction = Append(@, ids)],
             batch |-> [i \in 1..Len(r.batch) |->
                          IF r.batch[i].entities = <<>>
                          THEN [r.batch[i] EXCEPT !.entities = PageEntities(r.batch[i].id)]
                          ELSE r.batch[i]]]

\* what the naming model does in one batch: the structured call raises or
\* answers as many names as clusters, one less or one more; the call for a
\* single cluster answers or raises; the names it gives are one theme for
\* all clusters or a name of its own for each
NamingAnswers ==
    [batch : {"raises", "names", "short", "long"}, single : {"answers", "raises"},
     theme : {"same", "own"}]

\* a naming model that answers every call, with one theme
GoodNaming == [batch |-> "names", single |-> "answers", theme |-> "same"]

\* the name generate_cluster_name returns for cluster c: the model's answer,
\* "Cluster <id>" when the call raises
NameFor(c, naming) ==
    IF naming.single = "raises" THEN "Cluster " \o ToString(c.id)
    ELSE IF naming.theme = "same" THEN GeneratedName
    ELSE GeneratedName \o " for " \o ToString(c.id)

\* the "names" array of the structured answer for n clusters
NamesArray(n, naming) ==
    LET k == IF naming.batch = "short" THEN n - 1
             ELSE IF naming.batch = "long" THEN n + 1 ELSE n
    IN  [j \in 1..k |-> IF naming.theme = "same" THEN GeneratedName
                        ELSE GeneratedName \o " " \o ToString(j)]

\* a generate_cluster_names_batch that returns the array as it came
generate_cluster_names_batch_Unchecked(cs, naming) ==
    IF cs = <<>> THEN <<>>
    ELSE IF naming.batch = "raises" THEN [i \in 1..Len(cs) |-> NameFor(cs[i], naming)]
    ELSE NamesArray(Len(cs), naming)

\* TabClusterer.generate_cluster_names_batch: one structured call; when it
\* raises or the array has another length, generate_cluster_name per cluster
generate_cluster_names_batch(cs, naming) ==
    IF cs = <<>> THEN <<>>
    ELSE IF naming.batch = "raises" \/ Len(NamesArray(Len(cs), naming)) # Len(cs)
    THEN [i \in 1..Len(cs) |-> NameFor(cs[i], naming)]
    ELSE NamesArray(Len(cs), naming)

\* a selection that also takes the clusters of a single tab
clusters_to_name_Singletons(cs, clusters_before) ==
    SelectSeq(cs, LAMBDA c : c.id \notin clusters_before /\ c.name = PlaceholderName)

\* process_tabs_batch: the clusters to name at the end of the batch, those
\* created by it that carry the placeholder name and hold 2 tabs or more
clusters_to_name(cs, clusters_before) ==
    SelectSeq(cs, LAMBDA c : c.id \notin clusters_before /\ c.name = PlaceholderName
                                                         /\ c.tab_count >= 2)

\* TabClusterer.process_tabs_batch(tabs, skip_enrichment=True): embeddings and
\* entities for the tabs that lack them, assignment, then one naming pass
\* over the clusters created by this batch
process_tabs_batch(W, batch, agent, naming) ==
    LET clusters_before == { W.clusters[i].id : i \in 1..Len(W.clusters) }
        Asked(cs) == [i \in 1..Len(cs) |-> [kind |-> "name", cluster |-> cs[i].id,
                                            tabs |-> Len(cs[i].tabs)]]
        Zip(cs, to_name, names) ==
            [i \in 1..Len(cs) |->
                LET at == { j \in 1..Len(to_name) :
                               j <= Len(names) /\ to_name[j].id = cs[i].id }
                IN  IF at = {} THEN cs[i]
                    ELSE [cs[i] EXCEPT !.name = names[CHOOSE j \in at : TRUE],
                                       !.tabs_added_since_naming = 0]]
        NameNew(W1, to_name) ==
            [W1 EXCEPT !.clusters =
                           Zip(@, to_name,
                               generate_cluster_names_batch(to_name, naming)),
                       !.calls.cluster_events = @ \o Asked(to_name)]
        Collect(W1) == NameNew(W1, clusters_to_name(W1.clusters, clusters_before))
        Run(r) == Collect(AssignAll(r.w, r.batch, agent))
    IN Run(extract_missing(embed_missing(W, batch)))

(* ------------------------ request handlers (app.py) ------------------- *)

\* what the enrichment agent answers during one request, name by name: a
\* failure, or a type
AgentAnswers == { [n \in EntityNames |-> a] : a \in {"fail"} \cup EntityTypes }

\* the batches a browser can post: tabs with distinct ids, listed by id
Batches ==
    { b \in UNION { [1..n -> { MkTab(i, c) : i \in TabIds, c \in TabContents }] :
                      n \in 0..MaxBatch } :
        \A i, j \in 1..Len(b) : i < j => b[i].id < b[j].id }

\* the orders in which a set of tab ids can be listed
Orders(S) ==
    { o \in [1..Cardinality(S) -> S] : \A i, j \in 1..Cardinality(S) : i # j => o[i] # o[j] }

BatchIds(batch) == { batch[i].id : i \in 1..Len(batch) }

RECURSIVE Reconcile(_, _)
\* the reconciliation loop of ingest_tabs over the tabs to close
Reconcile(W, closing) ==
    IF closing = <<>> THEN W
    ELSE Reconcile(clusterer_remove_tab(DbCloseTab(W, Head(closing)), Head(closing)),
                   Tail(closing))

\* the reconciliation block of ingest_tabs: close the tabs the browser no
\* longer lists, then collect orphans when a tab was closed
reconcile_closed_tabs(W, closing) ==
    LET Collect(W1) == IF Len(closing) > 0 THEN DbRemoveOrphanedEntities(W1) ELSE W1
    IN Collect(Reconcile(W, closing))

\* ingest_tabs up to the end of clustering: reconcile, then process the batch
ingest_tabs(W, batch, closing, agent) ==
    process_tabs_batch(reconcile_closed_tabs(W, closing), batch, agent, GoodNaming)

RECURSIVE RemoveEach(_, _)
\* the removal loop of delete_tabs
RemoveEach(W, tab_ids) ==
    IF tab_ids = <<>> THEN W
    ELSE RemoveEach(clusterer_remove_tab(W, Head(tab_ids)), Tail(tab_ids))

\* delete_tabs: remove each listed tab through the engine, then collect orphans
delete_tabs(W, tab_ids) == DbRemoveOrphanedEntities(RemoveEach(W, tab_ids))

RECURSIVE StoreEnriched(_, _, _, _)
\* the storing loop of enrich_entities_in_background
StoreEnriched(W, names, agent, embeddings_ok) ==
    IF names = <<>> THEN W
    ELSE LET name == Head(names)
             W1 == IF agent[name] = "fail" THEN W
                   ELSE DbAddEntity(W, name, agent[name], TRUE,
                            IF embeddings_ok THEN NameEmbedding(name) ELSE NoEmbedding)
         IN StoreEnriched(W1, Tail(names), agent, embeddings_ok)

\* the resources of the request path: the connection of get_graph_db() and
\* the agent client of the engine; those a background task creates itself
RequestConnection == [kind |-> "KnowledgeGraphDB", owner |-> "request"]
RequestClient == [kind |-> "YouAPIClient", owner |-> "request"]
TaskConnection_Shared == RequestConnection
TaskConnection == [kind |-> "KnowledgeGraphDB", owner |-> "task"]
TaskClient == [kind |-> "YouAPIClient", owner |-> "task"]
TaskEmbedder == [kind |-> "OpenAI", owner |-> "task"]

\* what can go wrong in a task besides the agent: opening the connection
\* raises; the store write of the write-th item raises (0: none does)
MaxFault == 2
Faults == [connect : BOOLEAN, write : 0..MaxFault]
NoFaults == [connect |-> FALSE, write |-> 0]

\* what a task did: the resources it created, used and closed, whether an
\* exception left it, the names sent to the agent, the items it stored and
\* those whose store write raised
Report(created, used, closed, asked, stored, failed) ==
    [created |-> created, used |-> used, closed |-> closed, raised |-> FALSE,
     asked |-> asked, stored |-> stored, failed |-> failed]

\* enrich_entities_in_background: the names no enriched row carries are sent
\* to the agent and stored as new rows; the first store write that raises
\* ends the loop; the finally block closes what was created
enrich_entities_in_background(W, entity_names, agent, embeddings_ok, faults) ==
    LET enriched_names == { e.name : e \in { x \in W.entities :
                                              x.name \in entity_names /\ x.is_enriched } }
        Written(enriched) ==
            IF faults.write \in 1..Len(enriched)
            THEN SubSeq(enriched, 1, faults.write - 1) ELSE enriched
        Store(entities_to_enrich, enriched) ==
            [w |-> StoreEnriched([W EXCEPT !.calls.enrichment = @ \o entities_to_enrich],
                                 Written(enriched), agent, embeddings_ok),
             report |-> Report({TaskConnection, TaskClient, TaskEmbedder},
                               {TaskConnection, TaskClient, TaskEmbedder},
                               {TaskClient, TaskConnection},
                               entities_to_enrich, Written(enriched),
                               IF faults.write \in 1..Len(enriched)
                               THEN <<enriched[faults.write]>> ELSE <<>>)]
        Enrich(entities_to_enrich) ==
            IF entities_to_enrich = <<>>
            THEN [w |-> W,
                  report |-> Report({TaskConnection, TaskClient}, {TaskConnection},
                                    {TaskClient, TaskConnection}, <<>>, <<>>, <<>>)]
            ELSE Store(entities_to_enrich,
                       SelectSeq(entities_to_enrich, LAMBDA name : agent[name] # "fail"))
    IN  IF entity_names = {} THEN [w |-> W, report |-> Report({}, {}, {}, <<>>, <<>>, <<>>)]
        ELSE IF faults.connect
        THEN [w |-> W, report |-> Report({}, {}, {}, <<>>, <<>>, <<>>)]
        ELSE Enrich(SeqOfSet(entity_names \ enriched_names))

RECURSIVE PairsInOrder(_)
\* the rows of a SELECT over (entity_id, tab_id), in rowid order
PairsInOrder(S) ==
    IF S = {} THEN <<>>
    ELSE LET first == CHOOSE p \in S : \A q \in S :
                          p[1] < q[1] \/ (p[1] = q[1] /\ p[2] <= q[2])
         IN  <<first>> \o PairsInOrder(S \ {first})

\* re_enrich_entities: the (entity, tab) pairs of active tabs, all of them
\* with force, else those without a context record
re_enrich_entities(W, force) ==
    PairsInOrder({ <<l[2], l[1]>> : l \in
        { x \in W.tab_entities :
             /\ \E e \in W.entities : e.id = x[2]
             /\ x[1] \in DbActiveTabs(W)
             /\ force \/ <<x[2], x[1]>> \notin W.entity_tab_contexts } })

\* the name of an entity row
NameOfEntity(W, entity_id) == (CHOOSE e \in W.entities : e.id = entity_id).name

RECURSIVE ReEnrichRows(_, _, _, _, _)
\* the loop of _background_re_enrich_entities from row i on: each row is
\* processed inside its own try block
ReEnrichRows(r, pairs, i, agent, faults) ==
    IF i > Len(pairs) THEN r
    ELSE LET entity_id == pairs[i][1]
             tab_id == pairs[i][2]
             entity_name == NameOfEntity(r.w, entity_id)
             Row(W) ==
                IF agent[entity_name] = "fail" THEN [w |-> W, report |-> r.report]
                ELSE IF faults.write = i
                THEN [w |-> W,
                      report |-> [r.report EXCEPT !.failed = Append(@, pairs[i])]]
                ELSE [w |-> DbUpdateEntityEnrichment(
                                DbSaveEntityTabContext(W, entity_id, tab_id),
                                entity_id, ContextDescription(tab_id),
                                agent[entity_name]),
                      report |-> [r.report EXCEPT !.stored = Append(@, pairs[i])]]
         IN  ReEnrichRows(Row([r.w EXCEPT !.calls.enrichment = Append(@, entity_name)]),
                          pairs, i + 1, agent, faults)

\* _background_re_enrich_entities: connection and client are created, every
\* pair is enriched in its tab's context; nothing is closed
_background_re_enrich_entities(W, pairs, agent, faults) ==
    IF faults.connect THEN [w |-> W, report |-> Report({}, {}, {}, <<>>, <<>>, <<>>)]
    ELSE LET Asked(r) ==
                [r EXCEPT !.report.asked =
                              [i \in 1..Len(pairs) |-> NameOfEntity(W, pairs[i][1])]]
         IN  Asked(ReEnrichRows(
                     [w |-> W,
                      report |-> Report({TaskConnection, TaskClient},
                                        {TaskConnection, TaskClient}, {},
                                        <<>>, <<>>, <<>>)],
                     pairs, 1, agent, faults))

(* ------------------------------ actions ------------------------------- *)

Fits(W) == W.next_cluster_id <= MaxClusterId + 1 /\ W.next_entity_id <= MaxEntityId + 1

Install(W) ==
    /\ clusters' = W.clusters
    /\ next_color_index' = W.next_color_index
    /\ rename_threshold' = W.rename_threshold
    /\ next_cluster_id' = W.next_cluster_id
    /\ tabs' = W.tabs
    /\ entities' = W.entities
    /\ tab_entities' = W.tab_entities
    /\ entity_tab_contexts' = W.entity_tab_contexts
    /\ tab_relationships' = W.tab_relationships
    /\ next_entity_id' = W.next_entity_id
    /\ calls' = W.calls

\* the record of a request: its name and arguments, and the id the next new
\* cluster will get
Op(name, batch, tab_ids) ==
    [op |-> name, batch |-> batch, tab_ids |-> tab_ids,
     first_new_cluster |-> next_cluster_id, cluster |-> 0, size_before |-> 0]

\* the record of an engine call on the live cluster at index i: also the
\* cluster's id and the number of tabs it held before the call
ClusterOp(name, batch, tab_ids, i) ==
    [op |-> name, batch |-> batch, tab_ids |-> tab_ids,
     first_new_cluster |-> next_cluster_id, cluster |-> clusters[i].id,
     size_before |-> Len(clusters[i].tabs)]

Init ==
    /\ clusters = <<>>
    /\ next_color_index = 0
    /\ rename_threshold = configured_rename_threshold
    /\ next_cluster_id = 1
    /\ tabs = [t \in TabIds |-> NoRow]
    /\ entities = {}
    /\ tab_entities = {}
    /\ entity_tab_contexts = {}
    /\ tab_relationships = {}
    /\ next_entity_id = 1
    /\ background_tasks = {}
    /\ last_op = [op |-> "start", batch |-> <<>>, tab_ids |-> <<>>,
                  first_new_cluster |-> 1, cluster |-> 0, size_before |-> 0]
    /\ requests = 0
    /\ calls = NoCalls
    /\ event_loop = IdleLoop
    /\ probe = NoProbe

\* POST /api/tabs/ingest
Ingest ==
    /\ requests < MaxRequests
    /\ requests' = requests + 1
    /\ \E batch \in Batches, agent \in AgentAnswers :
      \E closing \in Orders(DbActiveTabs(World) \ BatchIds(batch)) :
      \E W \in { ingest_tabs(World, batch, closing, agent) } :
        LET names == UNION { Range(batch[i].entities) : i \in 1..Len(batch) }
        IN /\ Fits(W)
           /\ Install(W)
           /\ background_tasks' =
                 IF enable_background_enrichment /\ names # {}
                 THEN background_tasks \cup {names}
                 ELSE background_tasks
           /\ last_op' = Op("ingest", batch, closing)
           /\ UNCHANGED <<event_loop, probe>>

\* POST /api/tabs/delete
Delete ==
    /\ requests < MaxRequests
    /\ requests' = requests + 1
    /\ \E S \in SUBSET TabIds :
      \E tab_ids \in Orders(S) :
        /\ Len(tab_ids) <= MaxBatch
        /\ \E W \in { delete_tabs(World, tab_ids) } : Install(W)
        /\ UNCHANGED <<background_tasks, event_loop, probe>>
        /\ last_op' = Op("delete", <<>>, tab_ids)

\* TabClusterer.process_tab called on the engine directly
ProcessTab ==
    /\ requests < MaxRequests
    /\ requests' = requests + 1
    /\ \E i \in TabIds, c \in TabContents, agent \in AgentAnswers :
      \E W \in { process_tab(World, MkTab(i, c), agent) } :
           /\ Fits(W)
           /\ Install(W)
           /\ UNCHANGED <<background_tasks, event_loop, probe>>
           /\ last_op' = Op("process_tab", <<MkTab(i, c)>>, <<>>)

\* TabClusterer.add_tab_to_cluster called on a live cluster
AddTabToCluster ==
    /\ requests < MaxRequests
    /\ requests' = requests + 1
    /\ \E k \in 1..Len(clusters), i \in TabIds, c \in TabContents, agent \in AgentAnswers :
      \E W \in { AddToLive(World, k, MkTab(i, c), agent) } :
           /\ Fits(W)
           /\ Install(W)
           /\ UNCHANGED <<background_tasks, event_loop, probe>>
           /\ last_op' = ClusterOp("add_tab_to_cluster", <<MkTab(i, c)>>, <<>>, k)

\* TabClusterer.remove_tab_from_cluster called on a live cluster
RemoveTabFromCluster ==
    /\ requests < MaxRequests
    /\ requests' = requests + 1
    /\ \E k \in 1..Len(clusters), tab_id \in TabIds :
      \E W \in { remove_tab_from_cluster(World, k, tab_id) } :
           /\ Install(W)
           /\ UNCHANGED <<background_tasks, event_loop, probe>>
           /\ last_op' = ClusterOp("remove_tab_from_cluster", <<>>, <<tab_id>>, k)

\* a queued enrichment task runs
BackgroundEnrich ==
    /\ UNCHANGED requests
    /\ \E task \in background_tasks, agent \in AgentAnswers, embeddings_ok \in BOOLEAN :
      \E W \in { enrich_entities_in_background(World, task, agent, embeddings_ok,
                                               NoFaults).w } :
           /\ Fits(W)
           /\ Install(W)
           /\ background_tasks' = background_tasks \ {task}
           /\ last_op' = Op("enrich", <<>>, <<>>)
           /\ UNCHANGED <<event_loop, probe>>

\* the process restarts: the engine is rebuilt empty, the store file remains
Restart ==
    /\ clusters' = <<>>
    /\ next_color_index' = 0
    /\ rename_threshold' = configured_rename_threshold
    /\ background_tasks' = {}
    /\ last_op' = Op("restart", <<>>, <<>>)
    /\ calls' = NoCalls
    /\ UNCHANGED <<next_cluster_id, tabs, entities, tab_entities,
                   entity_tab_contexts, tab_relationships, next_entity_id, requests,
                   event_loop, probe>>

Next ==
    \/ Ingest
    \/ Delete
    \/ ProcessTab
    \/ AddTabToCluster
    \/ RemoveTabFromCluster
    \/ BackgroundEnrich
    \/ Restart

Spec == Init /\ [][Next]_vars

(* ---------------- the engine driven directly, call by call ------------- *)

EngineTabIds == 1..MaxEngineTab

\* what the tabs handed to the engine carry; one entity list repeats a name
EngineContents ==
    { [embedding |-> <<1, 0>>, entities |-> <<"a", "a">>],
      [embedding |-> <<1, 1>>, entities |-> <<"b">>],
      [embedding |-> <<0, 1>>, entities |-> <<"a", "b">>] }

\* the name a caller gives to create_new_cluster
InitialName == "N0"

\* an enrichment agent that answers nothing
NoAnswer == [n \in EntityNames |-> "fail"]

\* the engine and the store, with the events of the whole run so far
EngineWorld == [World EXCEPT !.calls = calls]

InitEngine ==
    /\ clusters = <<>>
    /\ next_color_index = 0
    /\ rename_threshold = configured_rename_threshold
    /\ next_cluster_id = 1
    /\ tabs = [t \in EngineTabIds |-> NoRow]
    /\ entities = {}
    /\ tab_entities = {}
    /\ entity_tab_contexts = {}
    /\ tab_relationships = {}
    /\ next_entity_id = 1
    /\ background_tasks = {}
    /\ last_op = [op |-> "start", batch |-> <<>>, tab_ids |-> <<>>,
                  first_new_cluster |-> 1, cluster |-> 0, size_before |-> 0]
    /\ requests = 0
    /\ calls = NoCalls
    /\ event_loop = IdleLoop
    /\ probe = NoProbe

\* TabClusterer.create_new_cluster(tab, initial_name=InitialName)
CreateNewCluster ==
    /\ requests < MaxEngineCalls
    /\ requests' = requests + 1
    /\ \E i \in EngineTabIds, c \in EngineContents :
      \E W \in { create_new_cluster(EngineWorld, MkTab(i, c), InitialName, FALSE, NoAnswer) } :
           /\ Fits(W)
           /\ Install(W)
           /\ UNCHANGED <<background_tasks, event_loop, probe>>
           /\ last_op' = Op("create_new_cluster", <<MkTab(i, c)>>, <<>>)

\* TabClusterer.add_tab_to_cluster(cluster, tab) on a live cluster
AddTab ==
    /\ requests < MaxEngineCalls
    /\ requests' = requests + 1
    /\ \E k \in 1..Len(clusters), i \in EngineTabIds, c \in EngineContents :
      \E W \in { AddToLive(EngineWorld, k, MkTab(i, c), NoAnswer) } :
           /\ Fits(W)
           /\ Install(W)
           /\ UNCHANGED <<background_tasks, event_loop, probe>>
           /\ last_op' = ClusterOp("add_tab_to_cluster", <<MkTab(i, c)>>, <<>>, k)

\* TabClusterer.remove_tab_from_cluster(cluster, tab_id) on a live cluster
RemoveTab ==
    /\ requests < MaxEngineCalls
    /\ requests' = requests + 1
    /\ \E k \in 1..Len(clusters), tab_id \in EngineTabIds :
      \E W \in { remove_tab_from_cluster(EngineWorld, k, tab_id) } :
           /\ Install(W)
           /\ UNCHANGED <<background_tasks, event_loop, probe>>
           /\ last_op' = ClusterOp("remove_tab_from_cluster", <<>>, <<tab_id>>, k)

NextEngine ==
    \/ CreateNewCluster
    \/ AddTab
    \/ RemoveTab

SpecEngine == InitEngine /\ [][NextEngine]_vars

(* --------------- ingests whose tabs may lack cached data --------------- *)

\* the shapes in which the browser can send tab i: with or without the
\* embedding, with or without the entities it cached from an earlier response
CachedShapes(i) ==
    { [id |-> i, embedding |-> e, entities |-> n] :
        e \in {NoEmbedding, PageEmbedding(i)}, n \in {<<>>, PageEntities(i)} }

\* the batches a browser can post, tabs listed by id
UncachedBatches ==
    { b \in UNION { [1..n -> UNION { CachedShapes(i) : i \in TabIds }] :
                      n \in 0..MaxBatch } :
        \A i, j \in 1..Len(b) : i < j => b[i].id < b[j].id }

\* POST /api/tabs/ingest with tabs that may lack embedding or entities
IngestUncached ==
    /\ requests < MaxRequests
    /\ requests' = requests + 1
    /\ \E batch \in UncachedBatches :
      \E closing \in Orders(DbActiveTabs(World) \ BatchIds(batch)) :
      \E W \in { ingest_tabs(World, batch, closing, NoAnswer) } :
        LET processed == extract_missing([w |-> World, batch |-> batch]).batch
            names == UNION { Range(processed[i].entities) : i \in 1..Len(processed) }
        IN /\ Fits(W)
           /\ Install(W)
           /\ background_tasks' =
                 IF enable_background_enrichment /\ names # {}
                 THEN background_tasks \cup {names}
                 ELSE background_tasks
           /\ last_op' = Op("ingest", batch, closing)
           /\ UNCHANGED <<event_loop, probe>>

NextCache ==
    \/ IngestUncached

SpecCache == Init /\ [][NextCache]_vars

(* ------------- ingest requests in flight on one event loop ------------ *)

\* the positions of ingest_tabs at which the coroutine awaits and so hands
\* the loop to another coroutine
AwaitPoints_AfterReconcile == {"reconciled"}

\* ingest_tabs is `async def` and its body holds no await
AwaitPoints == {}

\* the loop runs a step of request r: no other coroutine holds the loop
CanRun(r) == event_loop.running \in {0, r}

\* the loop after request r reached position pc with the world W: the
\* coroutine keeps the loop unless it awaits there or has returned
Resume(r, pc, W) ==
    [event_loop EXCEPT !.running = IF pc \in AwaitPoints \/ pc = "done" THEN 0 ELSE r,
                       !.handlers[r].pc = pc,
                       !.handlers[r].left = W]

\* a browser posts an ingest while others may be in flight
IngestArrives ==
    /\ \E r \in RequestIds, batch \in Batches :
          /\ event_loop.handlers[r].pc = "idle"
          /\ event_loop' = [event_loop EXCEPT !.handlers[r].pc = "queued",
                                              !.handlers[r].batch = batch]
          /\ last_op' = Op("arrive", batch, <<>>)
    /\ requests' = requests + 1
    /\ UNCHANGED <<clusters, next_color_index, rename_threshold, next_cluster_id, tabs,
                   entities, tab_entities, entity_tab_contexts, tab_relationships,
                   next_entity_id, background_tasks, calls, probe>>

\* ingest_tabs, first part: build the tabs and reconcile with the store
IngestReconciles ==
    /\ \E r \in RequestIds :
          /\ event_loop.handlers[r].pc = "queued"
          /\ CanRun(r)
          /\ \E closing \in Orders(DbActiveTabs(World)
                                     \ BatchIds(event_loop.handlers[r].batch)) :
             \E W \in { reconcile_closed_tabs(World, closing) } :
                /\ Install(W)
                /\ event_loop' = Resume(r, "reconciled", W)
                /\ last_op' = Op("reconcile", event_loop.handlers[r].batch, closing)
    /\ UNCHANGED <<background_tasks, requests, probe>>

\* ingest_tabs, second part: clusterer.process_tabs_batch(tabs, skip_enrichment=True)
IngestClusters ==
    /\ \E r \in RequestIds :
          /\ event_loop.handlers[r].pc = "reconciled"
          /\ CanRun(r)
          /\ \E W \in { process_tabs_batch(World, event_loop.handlers[r].batch, NoAnswer,
                                            GoodNaming) } :
                /\ Fits(W)
                /\ Install(W)
                /\ event_loop' = Resume(r, "clustered", W)
                /\ last_op' = Op("cluster", event_loop.handlers[r].batch, <<>>)
    /\ UNCHANGED <<background_tasks, requests, probe>>

\* ingest_tabs, last part: queue the enrichment task and return the response
IngestResponds ==
    /\ \E r \in RequestIds :
          /\ event_loop.handlers[r].pc = "clustered"
          /\ CanRun(r)
          /\ LET batch == event_loop.handlers[r].batch
                 names == UNION { Range(batch[i].entities) : i \in 1..Len(batch) }
             IN /\ background_tasks' =
                      IF enable_background_enrichment /\ names # {}
                      THEN background_tasks \cup {names}
                      ELSE background_tasks
                /\ event_loop' = Resume(r, "done", World)
                /\ last_op' = Op("respond", batch, <<>>)
    /\ UNCHANGED <<clusters, next_color_index, rename_threshold, next_cluster_id, tabs,
                   entities, tab_entities, entity_tab_contexts, tab_relationships,
                   next_entity_id, requests, calls, probe>>

NextLoop ==
    \/ IngestArrives
    \/ IngestReconciles
    \/ IngestClusters
    \/ IngestResponds

SpecLoop == Init /\ [][NextLoop]_vars

(* ------------- one engine creating and losing many clusters ------------ *)

\* the one tab every cluster of this scenario is seeded with
SeedTab == MkTab(1, [embedding |-> <<1, 0>>, entities |-> <<"a">>])

\* create_new_cluster(tab, initial_name=InitialName): one more cluster
SeedCluster ==
    /\ next_cluster_id <= MaxCreated
    /\ requests' = requests + 1
    /\ \E W \in { create_new_cluster(World, SeedTab, InitialName, FALSE, NoAnswer) } :
           /\ Install(W)
           /\ UNCHANGED <<background_tasks, event_loop, probe>>
           /\ last_op' = Op("create_new_cluster", <<SeedTab>>, <<>>)

\* remove_tab_from_cluster takes the seed out of a live cluster, which deletes it
DropCluster ==
    /\ requests' = requests + 1
    /\ \E k \in 1..Len(clusters) :
      \E W \in { remove_tab_from_cluster(World, k, SeedTab.id) } :
           /\ Install(W)
           /\ UNCHANGED <<background_tasks, event_loop, probe>>
           /\ last_op' = ClusterOp("remove_tab_from_cluster", <<>>, <<SeedTab.id>>, k)

NextPalette ==
    \/ SeedCluster
    \/ DropCluster

SpecPalette == InitEngine /\ [][NextPalette]_vars

(* --------------------------- observations ----------------------------- *)

\* the ids of the tabs a cluster holds
Members(c) == { c.tabs[j].id : j \in 1..Len(c.tabs) }

\* the live clusters (by index) that hold a tab id
ClustersOf(tab_id) == { k \in 1..Len(clusters) : tab_id \in Members(clusters[k]) }

\* the set of cluster membership sets
Membership == { Members(clusters[k]) : k \in 1..Len(clusters) }

\* the ids of the live clusters
LiveIds == { clusters[k].id : k \in 1..Len(clusters) }

\* the step is a call of the named operation
Did(name) == last_op'.op = name /\ requests' = requests + 1

\* the live clusters (by index) the last engine call was made on
Touched == { k \in 1..Len(clusters) : clusters[k].id = last_op.cluster }

RECURSIVE Weighted(_, _)
\* the sum and the number of n[a] copies of each name's embedding
Weighted(names, n) ==
    IF names = {} THEN [sum |-> <<0, 0>>, n |-> 0]
    ELSE LET a == CHOOSE x \in names : TRUE
             Plus(r) == [sum |-> <<r.sum[1] + n[a] * NameEmbedding(a)[1],
                                   r.sum[2] + n[a] * NameEmbedding(a)[2]>>,
                         n |-> r.n + n[a]]
         IN Plus(Weighted(names \ {a}, n))

\* every centroid that only the tabs now in the cluster can explain: the mean
\* of their embeddings, or a mean of stored embeddings of their entity names
\* (a name has at most one embedded row per entity type); null without tabs
CentroidsOfCurrentTabs(c) ==
    IF c.tabs = <<>> THEN {NoCentroid}
    ELSE LET names == UNION { Range(c.tabs[j].entities) : j \in 1..Len(c.tabs) }
             Copies == { n \in [names -> 0..Cardinality(EntityTypes)] :
                           \E a \in names : n[a] > 0 }
             MeanOf(w) == Reduced(w.sum, w.n)
         IN { Mean([j \in 1..Len(c.tabs) |-> c.tabs[j].embedding]) }
               \cup { MeanOf(Weighted(names, n)) : n \in Copies }

RECURSIVE CountSince(_, _, _)
\* the additions to cluster id since its last naming, counted along a list of
\* cluster events, starting from n
CountSince(events, id, n) ==
    IF events = <<>> THEN n
    ELSE CountSince(Tail(events), id,
                    IF Head(events).cluster # id THEN n
                    ELSE IF Head(events).kind = "name" THEN 0 ELSE n + 1)

\* the counter cluster id carries now, 0 for a cluster that does not exist yet
CounterOf(id) ==
    IF \E k \in 1..Len(clusters) : clusters[k].id = id
    THEN (CHOOSE c \in Range(clusters) : c.id = id).tabs_added_since_naming
    ELSE 0

\* the number of events of one kind that the event list holds for cluster id
EventCount(kind, id) ==
    Cardinality({ i \in 1..Len(calls.cluster_events) :
                    /\ calls.cluster_events[i].kind = kind
                    /\ calls.cluster_events[i].cluster = id })

\* the name cluster id carries now
NameOf(id) == (CHOOSE c \in Range(clusters) : c.id = id).name

\* the number of tabs of cluster c whose entity list holds entity e
TabsHolding(c, e) ==
    Cardinality({ i \in 1..Len(c.tabs) : e \in Range(c.tabs[i].entities) })

(* ------------------------------- claims ------------------------------- *)

\* C1: after any sequence of ingest, process_tab, add and remove operations,
\* every tab id is a member of at most one live cluster.
C1_AtMostOneCluster == \A t \in TabIds : Cardinality(ClustersOf(t)) <= 1

\* C2: right after add_tab_to_cluster, and after remove_tab_from_cluster took a
\* tab out, the cluster's centroid is the one update_centroid computes from
\* the tabs now in the cluster and the store (entity embeddings first, else
\* tab embeddings, else null); and at all times the centroid of a live
\* cluster is explained by its current tabs alone.
C2_CentroidOfCurrentTabs ==
    /\ \A k \in 1..Len(clusters) :
          clusters[k].centroid_embedding \in CentroidsOfCurrentTabs(clusters[k])
    /\ \A k \in Touched :
          (\/ last_op.op = "add_tab_to_cluster"
           \/ /\ last_op.op = "remove_tab_from_cluster"
              /\ Len(clusters[k].tabs) = last_op.size_before - 1)
            => update_centroid(clusters[k], World) = clusters[k]

\* a cluster that lost one of three tabs and has an entity-based centroid
C2_Witness ==
    /\ last_op.op = "remove_tab_from_cluster"
    /\ \E k \in Touched :
          /\ last_op.size_before = 3
          /\ Len(clusters[k].tabs) = 2
          /\ _get_entity_embeddings(clusters[k], World) # <<>>
          /\ clusters[k].centroid_embedding #
                Mean([j \in 1..Len(clusters[k].tabs) |-> clusters[k].tabs[j].embedding])

\* C3: a removal that leaves fewer than 2 tabs deletes the cluster from the
\* live set; a removal that leaves 2 or more keeps it, with the tab gone.
C3_RemovalDeletesSmallCluster ==
    last_op.op = "remove_tab_from_cluster" =>
        IF Touched = {}
        THEN last_op.size_before - 1 < 2
        ELSE \A k \in Touched :
                \/ Len(clusters[k].tabs) = last_op.size_before
                \/ /\ Len(clusters[k].tabs) = last_op.size_before - 1
                   /\ Len(clusters[k].tabs) >= 2
                   /\ last_op.tab_ids[1] \notin Members(clusters[k])

\* three tabs lost one and the cluster is live with two
C3_Witness ==
    /\ last_op.op = "remove_tab_from_cluster"
    /\ last_op.size_before = 3
    /\ \E k \in Touched : Len(clusters[k].tabs) = 2

\* C4: immediately after a completed ingest every live cluster has at least
\* 2 tabs, except the clusters created by this same ingest.
C4_NoOldSingleton ==
    last_op.op = "ingest" =>
        \A k \in 1..Len(clusters) :
            clusters[k].id < last_op.first_new_cluster => Len(clusters[k].tabs) >= 2

\* C5: ingest(B) right after ingest(B) leaves the set of cluster membership
\* sets as it was and creates no cluster.
C5_IngestIdempotent ==
    [][(last_op.op = "ingest" /\ Did("ingest") /\ last_op'.batch = last_op.batch)
          => (Membership' = Membership /\ LiveIds' = LiveIds
              /\ next_cluster_id' = next_cluster_id)]_vars

\* C6: after a completed ingest(B) the tabs marked active in the store are
\* exactly the ids of B.
C6_ActiveIsBatch ==
    last_op.op = "ingest" => DbActiveTabs(World) = BatchIds(last_op.batch)

\* an ingest that stored tabs and closed a tab whose row is kept inactive
C6_Witness ==
    /\ last_op.op = "ingest"
    /\ last_op.batch # <<>>
    /\ \E t \in Range(last_op.tab_ids) :
          tabs[t] = [exists |-> TRUE, is_active |-> FALSE, closed_at |-> TRUE]

\* C7: an ingest leaves the row of every stored tab in the store; an active
\* tab absent from the batch is kept as an inactive row with closed_at set.
C7_ReconcileOnlyCloses ==
    [][Did("ingest") =>
          \A t \in TabIds :
              /\ tabs[t].exists => tabs'[t].exists
              /\ (tabs[t].exists /\ tabs[t].is_active /\ t \notin BatchIds(last_op'.batch))
                    => tabs'[t] = [exists |-> TRUE, is_active |-> FALSE, closed_at |-> TRUE]]_vars

\* C8: when an ingest closes every tab that references an entity, and the
\* batch does not name the entity, the entity is gone from the store after it.
C8_OrphanCollected ==
    [][Did("ingest") =>
          \A e \in entities :
              LET refs == { t \in TabIds : <<t, e.id>> \in tab_entities }
                  named == UNION { Range(last_op'.batch[i].entities) :
                                     i \in 1..Len(last_op'.batch) }
              IN (refs # {} /\ refs \subseteq Range(last_op'.tab_ids) /\ e.name \notin named)
                    => \A x \in entities' : x.id # e.id]_vars

\* C9: once a tab row is deleted from the store, no tab-entity link, no
\* entity-tab context and no tab-tab edge refers to that tab id.
C9_CascadeOnDelete ==
    [][\A t \in TabIds :
          (tabs[t].exists /\ ~ tabs'[t].exists) =>
              /\ \A l \in tab_entities' : l[1] # t
              /\ \A x \in entity_tab_contexts' : x[2] # t
              /\ \A r \in tab_relationships' : r.tab_id_1 # t /\ r.tab_id_2 # t]_vars

\* C10: after a delete request none of the listed tab ids is in the store or
\* in a cluster, and no entity without a tab-entity link remains.
C10_DeleteRemoves ==
    last_op.op = "delete" =>
        /\ \A t \in Range(last_op.tab_ids) : ~ tabs[t].exists /\ ClustersOf(t) = {}
        /\ DbOrphanedEntities(World) = {}

\* C11: across every operation, each live cluster's tabs_added_since_naming
\* is the number of tab additions to it since it was last named or renamed:
\* an addition adds one, a naming (at the threshold, at creation or in the
\* batch pass) resets it to 0, and a removal leaves it as it was.
C11_CounterCountsAdditions ==
    [][\A k \in 1..Len(clusters') :
          clusters'[k].tabs_added_since_naming =
              CountSince(calls'.cluster_events, clusters'[k].id,
                         CounterOf(clusters'[k].id))]_vars

\* an ingest added tabs to a cluster of an earlier request until the
\* threshold renamed it, and its counter is back at 0
C11_Witness ==
    /\ last_op.op = "ingest"
    /\ \E i, j \in 1..Len(calls.cluster_events) :
          /\ i < j
          /\ calls.cluster_events[i].kind = "add"
          /\ calls.cluster_events[j].kind = "name"
          /\ calls.cluster_events[i].cluster = calls.cluster_events[j].cluster
          /\ calls.cluster_events[j].cluster < last_op.first_new_cluster
          /\ \E k \in 1..Len(clusters) :
                /\ clusters[k].id = calls.cluster_events[j].cluster
                /\ clusters[k].tabs_added_since_naming = 0

C13_RemovalNeverRenames ==
    [][(Did("remove_tab_from_cluster") \/ Did("delete")) =>
          /\ \A i \in 1..Len(calls'.cluster_events) :
                 calls'.cluster_events[i].kind # "name"
          /\ \A k \in 1..Len(clusters') :
                 /\ clusters'[k].id \in LiveIds
                 /\ clusters'[k].name = NameOf(clusters'[k].id)
                 /\ clusters'[k].tabs_added_since_naming = CounterOf(clusters'[k].id)]_vars

\* a cluster that carries a generated name lost one of its three tabs and is
\* still live
C13_Witness ==
    /\ last_op.op = "remove_tab_from_cluster"
    /\ last_op.size_before = 3
    /\ calls.cluster_events = <<>>
    /\ \E k \in Touched :
          /\ Len(clusters[k].tabs) = 2
          /\ clusters[k].name = GeneratedName

\* C14: no operation (process_tab, process_tabs_batch through an ingest,
\* create_new_cluster) asks for a generated name for a cluster that holds
\* exactly one tab.
C14_NoNameForSingleTab ==
    \A i \in 1..Len(calls.cluster_events) :
        calls.cluster_events[i].kind = "name" => calls.cluster_events[i].tabs # 1

\* C15: the k-th cluster an engine creates wears palette entry (k - 1) mod 9,
\* however many clusters were deleted before it was created: the palette
\* advances round-robin and a deleted cluster's color is not handed out early.
C15_RoundRobinColors ==
    \A k \in 1..Len(clusters) :
        clusters[k].color = (clusters[k].id - 1) % color_pool_size

\* the tenth cluster wears the first color again while the first cluster is
\* still live and other colors are free
C15_Witness ==
    /\ \E k \in 1..Len(clusters) : clusters[k].id = color_pool_size + 1 /\ clusters[k].color = 0
    /\ \E k \in 1..Len(clusters) : clusters[k].id = 1 /\ clusters[k].color = 0
    /\ Len(clusters) < color_pool_size

\* C16: a live cluster's shared_entities lists, without repetition, exactly
\* the entities held by at least 2 of its current tabs, those held by more
\* tabs first; for a cluster of one tab it lists all entities of that tab.
\* A name repeated inside one tab's list counts as one tab.
C16_SharedByTwoTabs ==
    \A k \in 1..Len(clusters) :
        LET c == clusters[k]
            shared == c.shared_entities
            all == UNION { Range(c.tabs[i].entities) : i \in 1..Len(c.tabs) }
        IN /\ \A i, j \in 1..Len(shared) : i # j => shared[i] # shared[j]
           /\ Range(shared) = IF Len(c.tabs) = 1 THEN all
                               ELSE { e \in all : TabsHolding(c, e) >= 2 }
           /\ \A i, j \in 1..Len(shared) :
                 i < j => TabsHolding(c, shared[i]) >= TabsHolding(c, shared[j])

\* C17: every stored tab-tab edge is canonical (tab_id_1 < tab_id_2), lists
\* exactly the entity names the store links to both tabs, counts them, and
\* carries the strength |intersection| / |union| of the two tabs' name sets.
C17_EdgesMatchStoredEntities ==
    \A r \in tab_relationships :
        LET E1 == DbEntityNamesForTab(World, r.tab_id_1)
            E2 == DbEntityNamesForTab(World, r.tab_id_2)
        IN /\ r.tab_id_1 < r.tab_id_2
           /\ r.shared_entities = E1 \cap E2
           /\ r.shared_entity_count = Cardinality(E1 \cap E2)
           /\ r.relationship_strength[1] * Cardinality(E1 \cup E2)
                 = Cardinality(E1 \cap E2) * r.relationship_strength[2]
           /\ r.relationship_strength[2] > 0

\* C18: an ingest request makes no call to the entity-enrichment agent
\* between its start and its response; enrichment only runs in the
\* background task the request queued.
C18_IngestMakesNoAgentCall ==
    last_op.op = "ingest" => calls.enrichment = <<>>

\* C19: ingests in flight together are serialized end to end: at most one
\* ingest is between its first and its last step, and the engine and the
\* store it works on are exactly as its own previous step left them.
C19_IngestsSerialized ==
    LET Mid == { r \in RequestIds :
                   event_loop.handlers[r].pc \in {"reconciled", "clustered"} }
    IN /\ Cardinality(Mid) <= 1
       /\ \A r \in Mid :
             [event_loop.handlers[r].left EXCEPT !.calls = NoCalls] = World

\* a second ingest is waiting while the first, which changed the engine, is
\* between clustering and responding
C19_Witness ==
    \E r, q \in RequestIds :
        /\ event_loop.handlers[r].pc = "clustered"
        /\ event_loop.handlers[q].pc = "queued"
        /\ event_loop.handlers[q].batch # <<>>
        /\ clusters # <<>>

\* C20: an ingest whose tabs all carry an embedding makes no embedding call
\* and one whose tabs all carry entities makes no extraction call; otherwise
\* the ingest makes at most one batch embedding call, for exactly the tabs
\* without embedding, and at most one batch extraction call, for exactly the
\* tabs without entities.
C20_OneBatchCallForMissing ==
    last_op.op = "ingest" =>
        LET batch == last_op.batch
            no_embedding == { batch[i].id : i \in { j \in 1..Len(batch) :
                                                      batch[j].embedding = NoEmbedding } }
            no_entities == { batch[i].id : i \in { j \in 1..Len(batch) :
                                                     batch[j].entities = <<>> } }
        IN /\ Len(calls.embedding) <= 1
           /\ Len(calls.extraction) <= 1
           /\ no_embedding = {} => calls.embedding = <<>>
           /\ no_entities = {} => calls.extraction = <<>>
           /\ \A i \in 1..Len(calls.embedding) : Range(calls.embedding[i]) = no_embedding
           /\ \A i \in 1..Len(calls.extraction) : Range(calls.extraction[i]) = no_entities

\* an ingest of three tabs, one fully cached, two without embedding and one
\* of these also without entities: one embedding call for two tabs, one
\* extraction call for one
C20_Witness ==
    /\ last_op.op = "ingest"
    /\ Len(last_op.batch) = 3
    /\ \E i \in 1..3 : /\ last_op.batch[i].embedding # NoEmbedding
                       /\ last_op.batch[i].entities # <<>>
    /\ Len(calls.embedding) = 1
    /\ Len(calls.embedding[1]) = 2
    /\ Len(calls.extraction) = 1
    /\ Len(calls.extraction[1]) = 1

(* ------------------- EntityEnricher.enrich_entity ---------------------- *)

MaxOutputs == 2
MaxLines == 2

\* tab_id=None
NoTab == 0

\* a line of the answer, stripped: what it starts with and what follows
AnswerLines ==
    [label : {"Type:", "Description:", "Related:", "other"}, rest : {"", "tool"}]

\* an answer text split at newlines; the empty text is the one without lines
AnswerTexts == UNION { [1..n -> AnswerLines] : n \in 0..MaxLines }

\* an item of the agent's "output" list
OutputItems ==
    [type : {"message.answer", "chat_node.answer", "web_search.results"},
     text : AnswerTexts]

\* YouAPIClient.express_agent_search: it raises (the POST times out, the
\* status is an error, the body is not JSON) or returns the decoded body,
\* which may be something else than a dict
AgentResponses ==
    [raises : {"TimeoutException", "HTTPStatusError", "JSONDecodeError"}]
    \cup { [json |-> "list"] }
    \cup { [json |-> "dict", output |-> o] :
              o \in UNION { [1..n -> OutputItems] : n \in 0..MaxOutputs } }

\* str.title() of the type names the agent is asked to choose from
Title(s) == IF s = "tool" THEN "Tool" ELSE s

\* EntityEnricher._empty_enrichment
_empty_enrichment(entity_name, tab_id) ==
    [name |-> entity_name, description |-> "None", type |-> "Unknown",
     is_enriched |-> FALSE, tab_id |-> tab_id]

\* the text of the first answer item of the output, "" when there is none
ResponseText(output) ==
    LET answers == SelectSeq(output, LAMBDA item :
                       item.type \in {"message.answer", "chat_node.answer"})
    IN  IF answers = <<>> THEN <<>> ELSE answers[1].text

\* the value a label has after the loop over the lines: that of its last line
RECURSIVE LastOf(_, _, _)
LastOf(lines, label, default) ==
    IF lines = <<>> THEN default
    ELSE IF lines[Len(lines)].label = label THEN lines[Len(lines)].rest
    ELSE LastOf(SubSeq(lines, 1, Len(lines) - 1), label, default)

\* the body of enrich_entity inside its try block: what it returns or raises
enrich_entity_Try(entity_name, tab_id, agent_response) ==
    IF "raises" \in DOMAIN agent_response
    THEN [raised |-> agent_response.raises]
    ELSE IF agent_response.json # "dict"
    THEN [raised |-> "AttributeError"]
    ELSE LET text == ResponseText(agent_response.output)
             description == LastOf(text, "Description:", "")
             entity_type == Title(LastOf(text, "Type:", "Other"))
         IN  IF text = <<>>
             THEN [raised |-> "", value |-> _empty_enrichment(entity_name, NoTab)]
             ELSE IF description = ""
             THEN [raised |-> "", value |-> _empty_enrichment(entity_name, tab_id)]
             ELSE [raised |-> "",
                   value |-> [name |-> entity_name, description |-> description,
                              type |-> entity_type, is_enriched |-> TRUE,
                              tab_id |-> tab_id]]

\* except Exception: every exception of the body is caught
Caught_HttpOnly(exception) == exception \in {"TimeoutException", "HTTPStatusError"}

Caught(exception) == TRUE

\* EntityEnricher.enrich_entity: the body's exceptions never reach the retry
\* decorator, which therefore never retries
enrich_entity(entity_name, tab_id, agent_response) ==
    LET Handle(r) ==
          IF r.raised # "" /\ Caught(r.raised)
          THEN [raised |-> "", value |-> _empty_enrichment(entity_name, tab_id)]
          ELSE r
    IN  Handle(enrich_entity_Try(entity_name, tab_id, agent_response))

\* the other variables while a function is examined alone
Idle ==
    /\ clusters = <<>>
    /\ next_color_index = 0
    /\ rename_threshold = configured_rename_threshold
    /\ next_cluster_id = 1
    /\ tabs = [t \in TabIds |-> NoRow]
    /\ entities = {}
    /\ tab_entities = {}
    /\ entity_tab_contexts = {}
    /\ tab_relationships = {}
    /\ next_entity_id = 1
    /\ background_tasks = {}
    /\ last_op = [op |-> "start", batch |-> <<>>, tab_ids |-> <<>>,
                  first_new_cluster |-> 1, cluster |-> 0, size_before |-> 0]
    /\ requests = 0
    /\ calls = NoCalls
    /\ event_loop = IdleLoop

StayIdle ==
    UNCHANGED <<clusters, next_color_index, rename_threshold, next_cluster_id, tabs,
                entities, tab_entities, entity_tab_contexts, tab_relationships,
                next_entity_id, background_tasks, last_op, requests, calls,
                event_loop>>

InitEnricher ==
    /\ Idle
    /\ probe \in [fn : {"enrich_entity"}, entity_name : EntityNames,
                  tab_id : {NoTab} \cup TabIds, agent_response : AgentResponses,
                  done : {FALSE}]

\* one call of enrich_entity with the agent answering as drawn
EnrichEntity ==
    /\ probe.fn = "enrich_entity"
    /\ ~probe.done
    /\ probe' = [fn |-> "enrich_entity", entity_name |-> probe.entity_name,
                 tab_id |-> probe.tab_id, agent_response |-> probe.agent_response,
                 done |-> TRUE,
                 outcome |-> enrich_entity(probe.entity_name, probe.tab_id,
                                           probe.agent_response)]
    /\ StayIdle

NextEnricher == EnrichEntity

SpecEnricher == InitEnricher /\ [][NextEnricher]_vars

\* the call of enrich_entity under examination has returned or raised
Enriched == probe.fn = "enrich_entity" /\ probe.done

\* the agent's answer carries a description: the first answer item of the
\* output has a Description: line, and the last such line is not empty
HasDescription(agent_response) ==
    /\ "output" \in DOMAIN agent_response
    /\ \E i \in 1..Len(agent_response.output) :
          /\ agent_response.output[i].type \in {"message.answer", "chat_node.answer"}
          /\ \A j \in 1..(i - 1) :
                agent_response.output[j].type
                   \notin {"message.answer", "chat_node.answer"}
          /\ LET text == agent_response.output[i].text
             IN  \E k \in 1..Len(text) :
                    /\ text[k].label = "Description:"
                    /\ text[k].rest # ""
                    /\ \A m \in (k + 1)..Len(text) : text[m].label # "Description:"

\* C21: enrich_entity never raises; whenever the agent call fails or its
\* answer carries no description, the caller gets the empty record of that
\* name (not enriched, no description), and a record is marked enriched
\* exactly when a non-empty description was parsed, which it then carries.
C21_NeverRaisesEmptyOnFailure ==
    Enriched =>
       /\ probe.outcome.raised = ""
       /\ probe.outcome.value.name = probe.entity_name
       /\ probe.outcome.value.is_enriched = HasDescription(probe.agent_response)
       /\ ~probe.outcome.value.is_enriched =>
             /\ probe.outcome.value.description = "None"
             /\ probe.outcome.value.type = "Unknown"
             /\ probe.outcome.value.tab_id \in {NoTab, probe.tab_id}
       /\ probe.outcome.value.is_enriched =>
             /\ probe.outcome.value.description \notin {"", "None"}
             /\ probe.outcome.value.tab_id = probe.tab_id

\* the decoded body was not a dict, which fails inside the parse, and the
\* caller still got the empty record
C21_Witness ==
    /\ Enriched
    /\ "json" \in DOMAIN probe.agent_response
    /\ probe.agent_response.json = "list"
    /\ probe.outcome = [raised |-> "",
                        value |-> _empty_enrichment(probe.entity_name, probe.tab_id)]

(* ---------------- EntityExtractor.extract_entities_batch --------------- *)

\* titles and urls a tab can arrive with: a title of words, the empty
\* title, a title of blanks; a web page, a page without http(s) scheme
TabTitles == {"React", "", " "}
TabUrls == {"https://react.dev", "about:blank"}
TabDicts == [title : TabTitles, url : TabUrls]

\* an entity name, tagged with who produced it and for which input position
LlmEntity(how, i) == [source |-> how, name |-> "entity", tab |-> i]
KeywordEntity(name) == [source |-> "keywords", name |-> name, tab |-> 0]

\* title.split(): the words of the title
TitleWords(title) == IF title = "React" THEN <<"React">> ELSE <<>>

\* EntityExtractor._extract_with_keywords
_extract_with_keywords(tab) ==
    LET from_title == Range(TitleWords(tab.title))
        domain_match == tab.url = "https://react.dev"
        from_url == IF domain_match THEN {"React"} ELSE {}
        found == from_title \cup from_url
    IN  IF found # {}
        THEN [raised |-> "", value |-> <<KeywordEntity("React")>>]
        ELSE IF tab.title = ""
        THEN [raised |-> "", value |-> <<KeywordEntity("Unknown")>>]
        ELSE IF TitleWords(tab.title) = <<>>
        THEN [raised |-> "IndexError"]
        ELSE [raised |-> "", value |-> <<KeywordEntity(TitleWords(tab.title)[1])>>]

\* what the model answers to the prompt of one tab: the call raises, the
\* answer holds no usable name, or it holds names
ScalarAnswers == {"raises", "empty", "names"}

\* EntityExtractor.extract_entities for the tab at position i
extract_entities(tab, i, answer) ==
    IF answer = "names"
    THEN [raised |-> "", value |-> <<LlmEntity("scalar", i)>>]
    ELSE _extract_with_keywords(tab)

\* the structured answer: the call raises, or "results" holds so many items,
\* the j-th being what the model extracted for the j-th tab of the prompt
BatchAnswers == {[raises |-> TRUE]} \cup [raises : {FALSE}, count : 0..(MaxBatch + 1)]

\* EntityExtractor._extract_batch_with_llm
_extract_batch_with_llm(tab_list, answer) ==
    IF answer.raises THEN [raised |-> "APIError"]
    ELSE IF answer.count # Len(tab_list) THEN [raised |-> "ValueError"]
    ELSE [raised |-> "", value |-> [j \in 1..answer.count |-> <<LlmEntity("batch", j)>>]]

\* [extract_entities(tab) for tab in tabs]: the first exception ends it
EachTab(tab_list, scalar) ==
    LET each == [i \in 1..Len(tab_list) |-> extract_entities(tab_list[i], i, scalar[i])]
        failed == { i \in 1..Len(tab_list) : each[i].raised # "" }
    IN  IF failed # {}
        THEN [raised |-> each[CHOOSE i \in failed : \A j \in failed : i <= j].raised]
        ELSE [raised |-> "", value |-> [i \in 1..Len(tab_list) |-> each[i].value]]

\* EntityExtractor.extract_entities_batch
extract_entities_batch(tab_list, batch_answer, scalar) ==
    IF tab_list = <<>> THEN [raised |-> "", value |-> <<>>]
    ELSE IF Len(tab_list) = 1 THEN EachTab(tab_list, scalar)
    ELSE LET Fallback(r) == IF r.raised # "" THEN EachTab(tab_list, scalar) ELSE r
         IN  Fallback(_extract_batch_with_llm(tab_list, batch_answer))

InitExtractor ==
    /\ Idle
    /\ \E n \in 0..MaxBatch :
          probe \in [fn : {"extract_entities_batch"}, tabs : [1..n -> TabDicts],
                     batch_answer : BatchAnswers, scalar : [1..n -> ScalarAnswers],
                     done : {FALSE}]

\* one call of extract_entities_batch with the model answering as drawn
ExtractEntitiesBatch ==
    /\ probe.fn = "extract_entities_batch"
    /\ ~probe.done
    /\ probe' = [fn |-> "extract_entities_batch", tabs |-> probe.tabs,
                 batch_answer |-> probe.batch_answer, scalar |-> probe.scalar,
                 done |-> TRUE,
                 outcome |-> extract_entities_batch(probe.tabs, probe.batch_answer,
                                                    probe.scalar)]
    /\ StayIdle

NextExtractor == ExtractEntitiesBatch

SpecExtractor == InitExtractor /\ [][NextExtractor]_vars

\* the call of extract_entities_batch under examination has ended
Extracted == probe.fn = "extract_entities_batch" /\ probe.done

\* C22: extract_entities_batch returns one entity list per input tab, in
\* input order, whatever the model does: the i-th list is the structured
\* answer's i-th item when that answer has one item per tab, and otherwise
\* (and for a single tab) what the scalar path gives for the i-th tab.
C22_OneListPerTabOnEveryPath ==
    Extracted =>
       /\ probe.outcome.raised = ""
       /\ Len(probe.outcome.value) = Len(probe.tabs)
       /\ \A i \in 1..Len(probe.tabs) :
             /\ probe.outcome.value[i] # <<>>
             /\ \A e \in Range(probe.outcome.value[i]) : e.tab \in {0, i}
             /\ \E e \in Range(probe.outcome.value[i]) :
                   e.source = (IF /\ Len(probe.tabs) > 1
                                  /\ ~probe.batch_answer.raises
                                  /\ probe.batch_answer.count = Len(probe.tabs)
                               THEN "batch"
                               ELSE IF probe.scalar[i] = "names" THEN "scalar"
                               ELSE "keywords")

(* ------------------------ contextual enrichment ------------------------ *)

\* the tabs for which a context record of entity row entity_id is written
\* by the step: _enrich_entity_async got an enriched answer for them
NewContexts(entity_id) ==
    { t \in TabIds : /\ <<entity_id, t>> \in entity_tab_contexts'
                     /\ <<entity_id, t>> \notin entity_tab_contexts }

\* the tab stored last by the operation among those of the set S
LastStored(batch, S) ==
    LET at == { i \in 1..Len(batch) : batch[i].id \in S }
    IN  batch[CHOOSE i \in at : \A j \in at : j <= i].id

\* C23: whenever an operation enriches an entity in the context of tabs that
\* reference it, the store then holds one context record per such tab, all
\* keyed by the one row found for that name, and the row's global description
\* is the description written last, that of the last of these tabs.
C23_GlobalDescriptionIsLastContext ==
    [][ \A e \in entities' :
          LET new == NewContexts(e.id)
          IN  new # {} =>
                /\ new \subseteq BatchIds(last_op'.batch)
                /\ \A x \in entities' :
                      x.name = e.name /\ x.id # e.id => NewContexts(x.id) = {}
                /\ e.is_enriched
                /\ e.web_description =
                      ContextDescription(LastStored(last_op'.batch, new)) ]_vars

(* --------------------------- assignment rule --------------------------- *)

\* the live clusters that have a centroid, by index
WithCentroid == { i \in 1..Len(clusters) : clusters[i].centroid_embedding # NoCentroid }

\* the score of the rule, in ten-thousandths: hybrid when entities are
\* weighted and both sides have some, cosine otherwise
Score(i, tab) ==
    LET cosine == _cosine_similarity(tab.embedding, clusters[i].centroid_embedding.sum)
    IN  IF entity_weight > 0 /\ Len(tab.entities) > 0
                             /\ Len(clusters[i].shared_entities) > 0
        THEN (100 - entity_weight) * cosine
               + entity_weight * _entity_overlap_score(tab.entities,
                                                       clusters[i].shared_entities)
        ELSE 100 * cosine

\* the clusters whose score is the maximum, by index
Best(tab) == { i \in WithCentroid : \A j \in WithCentroid : Score(j, tab) <= Score(i, tab) }

\* the cluster the rule assigns a tab to, by index, 0 when it is to seed a
\* new one: the first of the best when their score reaches the threshold
Assigned(tab) ==
    IF tab.embedding = NoEmbedding \/ WithCentroid = {} THEN 0
    ELSE LET first == CHOOSE i \in Best(tab) : \A j \in Best(tab) : i <= j
         IN  IF Score(first, tab) >= 100 * similarity_threshold THEN first ELSE 0

\* a tab for which generate_embedding returned nothing
Unembedded == [embedding |-> NoEmbedding, entities |-> <<"a">>]

MaxAssignCalls == 3

\* TabClusterer.create_new_cluster(tab) called on the engine
SeedEngineCluster ==
    /\ requests < MaxAssignCalls
    /\ requests' = requests + 1
    /\ \E i \in EngineTabIds, c \in EngineContents :
      \E W \in { create_new_cluster(EngineWorld, MkTab(i, c), "", FALSE, NoAnswer) } :
           /\ Fits(W)
           /\ Install(W)
           /\ UNCHANGED <<background_tasks, event_loop, probe>>
           /\ last_op' = Op("create_new_cluster", <<MkTab(i, c)>>, <<>>)

\* TabClusterer.process_tab(tab) called on the engine
ProcessEngineTab ==
    /\ requests < MaxAssignCalls
    /\ requests' = requests + 1
    /\ \E i \in EngineTabIds, c \in EngineContents \cup {Unembedded} :
      \E W \in { process_tab(EngineWorld, MkTab(i, c), NoAnswer) } :
           /\ Fits(W)
           /\ Install(W)
           /\ UNCHANGED <<background_tasks, event_loop, probe>>
           /\ last_op' = Op("process_tab", <<MkTab(i, c)>>, <<>>)

NextAssign ==
    \/ SeedEngineCluster
    \/ ProcessEngineTab

\* the engine driven by direct calls, process_tab among them
SpecAssign == InitEngine /\ [][NextAssign]_vars

MaxNamingBatch == 4

\* the batches handed to the engine: tabs 1..n in order, each with one of
\* the contents
NamingBatches ==
    UNION { { [i \in 1..n |-> MkTab(i, cs[i])] : cs \in [1..n -> EngineContents] } :
               n \in 1..MaxNamingBatch }

\* TabClusterer.process_tabs_batch(tabs, skip_enrichment=True) on a fresh
\* engine, with the naming model answering as drawn
ProcessTabsBatch ==
    /\ requests < 1
    /\ requests' = requests + 1
    /\ \E batch \in NamingBatches, naming \in NamingAnswers :
      \E W \in { process_tabs_batch(EngineWorld, batch, NoAnswer, naming) } :
           /\ Fits(W)
           /\ Install(W)
           /\ probe' = [fn |-> "process_tabs_batch", naming |-> naming]
           /\ UNCHANGED <<background_tasks, event_loop>>
           /\ last_op' = Op("process_tabs_batch", batch, <<>>)

NextNaming == ProcessTabsBatch

SpecNaming == InitEngine /\ [][NextNaming]_vars

\* the clusters created by the last batch that hold two tabs or more, in
\* engine order
GrownInBatch ==
    SelectSeq(clusters, LAMBDA c : c.id >= last_op.first_new_cluster /\ c.tab_count >= 2)

\* the clusters a batch created that, when its assignment loop ends, still
\* carry the placeholder name and hold two tabs or more, in engine order
StillUnnamed(W, batch) ==
    LET before == { W.clusters[i].id : i \in 1..Len(W.clusters) }
        Assign(r) == AssignAll(r.w, r.batch, NoAnswer)
    IN  SelectSeq(Assign(extract_missing(embed_missing(W, batch))).clusters,
                  LAMBDA c : c.id \notin before /\ c.name = PlaceholderName
                                                /\ c.tab_count >= 2)

\* C25: at the end of process_tabs_batch every cluster created by the batch
\* that still carries the placeholder name and holds at least 2 tabs has
\* received a name and has its counter at 0; the j-th of them carries the
\* j-th name of the structured answer when that answer has one name per
\* cluster, and otherwise (the call raised, or the number of names differs)
\* the name generate_cluster_name gives for that very cluster.
C25_NewClustersNamedInOrder ==
    [][ last_op'.op = "process_tabs_batch" =>
          LET Named(to_name) ==
                \A j \in 1..Len(to_name) :
                   \E i \in 1..Len(clusters') :
                      /\ clusters'[i].id = to_name[j].id
                      /\ clusters'[i].name # PlaceholderName
                      /\ clusters'[i].tabs_added_since_naming = 0
                      /\ clusters'[i].name =
                            IF probe'.naming.batch = "names"
                            THEN (IF probe'.naming.theme = "own"
                                  THEN GeneratedName \o " " \o ToString(j)
                                  ELSE GeneratedName)
                            ELSE IF probe'.naming.single = "raises"
                            THEN "Cluster " \o ToString(to_name[j].id)
                            ELSE IF probe'.naming.theme = "own"
                            THEN GeneratedName \o " for " \o ToString(to_name[j].id)
                            ELSE GeneratedName
          IN  Named(StillUnnamed(EngineWorld, last_op'.batch)) ]_vars

\* the batch created two clusters of two tabs, the structured answer had
\* one name too few, and each cluster got the name asked for it alone
C25_Witness ==
    /\ last_op.op = "process_tabs_batch"
    /\ probe.naming = [batch |-> "short", single |-> "answers", theme |-> "own"]
    /\ Len(GrownInBatch) = 2
    /\ Len(GrownInBatch[1].tabs) = 2
    /\ Len(GrownInBatch[2].tabs) = 2
    /\ GrownInBatch[1].name = GeneratedName \o " for " \o ToString(GrownInBatch[1].id)
    /\ GrownInBatch[2].name = GeneratedName \o " for " \o ToString(GrownInBatch[2].id)
    /\ GrownInBatch[1].id # GrownInBatch[2].id

(* ------------------------- the batch-ingest path ----------------------- *)

NextIngest ==
    \/ Ingest
    \/ BackgroundEnrich
    \/ Restart

\* the server as the browser extension drives it: ingests only
SpecIngest == Init /\ [][NextIngest]_vars

\* C26: on the batch-ingest path every live cluster that holds exactly one
\* tab carries the placeholder name.
C26_SingletonsKeepPlaceholder ==
    \A k \in 1..Len(clusters) :
       Len(clusters[k].tabs) = 1 => clusters[k].name = PlaceholderName

\* a second ingest closed a tab of a named cluster and brought a single tab,
\* which now sits alone in a placeholder-named cluster
C26_Witness ==
    /\ last_op.op = "ingest"
    /\ requests = 2
    /\ Len(last_op.batch) = 1
    /\ Len(last_op.tab_ids) > 0
    /\ \E k \in 1..Len(clusters) :
          /\ IdsOf(clusters[k].tabs) = <<last_op.batch[1].id>>
          /\ clusters[k].name = PlaceholderName
          /\ clusters[k].id >= last_op.first_new_cluster

(* --------------------------- background tasks -------------------------- *)

\* what the agent answers for each name during one task
WorkerAnswers == [EntityNames -> {"fail", "Tool"}]

\* the record of one task invocation
Invocation(fn, names, pairs, agent, faults, report) ==
    [fn |-> fn, names |-> names, pairs |-> pairs, agent |-> agent,
     faults |-> faults, report |-> report]

\* the batches of pages that all mention both names
PagesOfBothNames ==
    { b \in Batches : \A i \in 1..Len(b) : b[i].entities = <<"a", "b">>
                                           /\ b[i].embedding = <<1, 1>> }

\* POST /api/tabs/ingest with pages that all mention both names
IngestPages ==
    /\ requests < MaxRequests
    /\ requests' = requests + 1
    /\ \E batch \in PagesOfBothNames, agent \in AgentAnswers :
      \E closing \in Orders(DbActiveTabs(World) \ BatchIds(batch)) :
      \E W \in { ingest_tabs(World, batch, closing, agent) } :
        LET names == UNION { Range(batch[i].entities) : i \in 1..Len(batch) }
        IN /\ Fits(W)
           /\ Install(W)
           /\ background_tasks' =
                 IF enable_background_enrichment /\ names # {}
                 THEN background_tasks \cup {names}
                 ELSE background_tasks
           /\ last_op' = Op("ingest", batch, closing)
           /\ UNCHANGED <<event_loop, probe>>

\* a queued enrich_entities_in_background task runs to its end
RunEnrichment ==
    /\ UNCHANGED <<requests, event_loop>>
    /\ \E task \in background_tasks, agent \in WorkerAnswers,
          embeddings_ok \in BOOLEAN, faults \in Faults :
      \E r \in { enrich_entities_in_background(World, task, agent, embeddings_ok,
                                               faults) } :
           /\ Fits(r.w)
           /\ Install(r.w)
           /\ background_tasks' = background_tasks \ {task}
           /\ last_op' = Op("enrich_entities_in_background", <<>>, <<>>)
           /\ probe' = Invocation("enrich_entities_in_background", task, <<>>,
                                  agent, faults, r.report)
                        @@ [embeddings_ok |-> embeddings_ok]

\* POST /api/entities/re-enrich, and the task it queues run to its end
ReEnrich ==
    /\ requests < MaxRequests
    /\ requests' = requests + 1
    /\ UNCHANGED <<event_loop, background_tasks>>
    /\ \E force \in BOOLEAN, agent \in WorkerAnswers, faults \in Faults :
      \E pairs \in { re_enrich_entities(World, force) } :
        IF pairs = <<>>
        THEN /\ Install(World)
             /\ last_op' = Op("re_enrich_entities", <<>>, <<>>)
             /\ probe' = [fn |-> "re_enrich_entities"]
        ELSE \E r \in { _background_re_enrich_entities(World, pairs, agent, faults) } :
             /\ Install(r.w)
             /\ last_op' = Op("_background_re_enrich_entities", <<>>, <<>>)
             /\ probe' = Invocation("_background_re_enrich_entities", {}, pairs,
                                    agent, faults, r.report)

\* more than cache_ttl days pass: every enrichment stored so far is older
\* than the TTL
CacheExpires ==
    /\ \E e \in entities : e.enriched_at = "recent"
    /\ entities' = { [e EXCEPT !.enriched_at = IF @ = "recent" THEN "expired" ELSE @] :
                       e \in entities }
    /\ last_op' = Op("cache_expires", <<>>, <<>>)
    /\ UNCHANGED <<clusters, next_color_index, rename_threshold, next_cluster_id,
                   tabs, tab_entities, entity_tab_contexts, tab_relationships,
                   next_entity_id, background_tasks, requests, calls, event_loop,
                   probe>>

NextWorker ==
    \/ IngestPages
    \/ RunEnrichment
    \/ ReEnrich
    \/ CacheExpires

\* the server with its two background tasks
SpecWorker == Init /\ [][NextWorker]_vars

(* ------------------- C27: tasks use their own resources ---------------- *)

C28_TasksCloseWhatTheyCreated ==
    probe.fn \in {"enrich_entities_in_background", "_background_re_enrich_entities"} =>
       \A r \in probe.report.created :
          r.kind \in {"KnowledgeGraphDB", "YouAPIClient"} => r \in probe.report.closed

(* --------------- C29: one failing name does not stop the rest ---------- *)

\* C29: a background task never raises to its caller, and when the agent
\* fails for a name or the store write of one item raises, every other item
\* of the same invocation for which the agent answered is still stored.
C29_OneFailureSkipsOnlyThatName ==
    /\ probe.fn = "enrich_entities_in_background" =>
          /\ ~probe.report.raised
          /\ Range(probe.report.stored) =
                { n \in Range(probe.report.asked) : probe.agent[n] # "fail" }
                   \ Range(probe.report.failed)
    /\ probe.fn = "_background_re_enrich_entities" =>
          /\ ~probe.report.raised
          /\ Range(probe.report.stored) =
                { probe.pairs[i] : i \in { j \in 1..Len(probe.report.asked) :
                                             probe.agent[probe.report.asked[j]] # "fail" } }
                   \ Range(probe.report.failed)

(* ------------------- C30: which names reach the agent ------------------ *)

\* C30: an enrich_entities_in_background invocation whose connection opened
\* calls the agent exactly for those of its input names that need enrichment
\* under the cache-TTL rule: the names with no stored row that is enriched
\* and whose enriched_at is within cache_ttl; it calls it for no name that
\* has such a row.
C30_AgentAskedPerTtlRule ==
    [][ (last_op'.op = "enrich_entities_in_background" /\ ~probe'.faults.connect) =>
           Range(probe'.report.asked) =
              { n \in probe'.names :
                  ~\E e \in entities : /\ e.name = n
                                       /\ e.is_enriched
                                       /\ e.enriched_at = "recent" } ]_vars

(* ---------------------------- cache-TTL rule --------------------------- *)

\* the default cache_ttl_days of both functions
cache_ttl_days == 7
\* the clock runs over the days 0..MaxClock
MaxClock == 9

\* KnowledgeGraphDB.needs_enrichment for a stored row at time now; enriched_at
\* is <<>> for NULL and <<day>> otherwise
needs_enrichment(row, now) ==
    IF ~row.is_enriched THEN TRUE
    ELSE IF row.enriched_at # <<>>
    THEN now > row.enriched_at[1] + cache_ttl_days
    ELSE FALSE

\* KnowledgeGraphDB.get_entities_needing_enrichment: the ids the SELECT returns
get_entities_needing_enrichment(rows, now) ==
    { row.id : row \in { x \in rows : \/ ~x.is_enriched
                                      \/ x.enriched_at = <<>>
                                      \/ x.enriched_at[1] < now - cache_ttl_days } }

InitTtl ==
    /\ Idle
    /\ probe \in [fn : {"needs_enrichment"}, is_enriched : BOOLEAN,
                  enriched_at : {<<>>} \cup { <<d>> : d \in 0..MaxClock },
                  now : 0..MaxClock, done : {FALSE}]
    /\ (probe.enriched_at # <<>> => probe.enriched_at[1] <= probe.now)

\* both functions are asked about the one stored row
NeedsEnrichment ==
    /\ probe.fn = "needs_enrichment"
    /\ ~probe.done
    /\ LET row == [id |-> 1, is_enriched |-> probe.is_enriched,
                   enriched_at |-> probe.enriched_at]
       IN probe' = [probe EXCEPT !.done = TRUE] @@
                   [needs |-> needs_enrichment(row, probe.now),
                    listed |-> get_entities_needing_enrichment({row}, probe.now)]
    /\ StayIdle

NextTtl ==
    \/ NeedsEnrichment

SpecTtl == InitTtl /\ [][NextTtl]_vars

\* C31: for a stored entity, needs_enrichment is true exactly when
\* is_enriched is false, or enriched_at is null, or now - enriched_at is
\* more than cache_ttl; and it is true exactly when
\* get_entities_needing_enrichment lists the entity.
C31_TtlRuleAndListingAgree ==
    (probe.fn = "needs_enrichment" /\ probe.done) =>
       /\ probe.needs = ( \/ ~probe.is_enriched
                          \/ probe.enriched_at = <<>>
                          \/ probe.now - probe.enriched_at[1] > cache_ttl_days )
       /\ probe.needs = (1 \in probe.listed)

(* ------------- C32: the worker's result reaches the stored row --------- *)

\* C32: when an enrich_entities_in_background invocation stored a successful
\* enrichment for a name whose entity existed un-enriched before the task,
\* that same entity row is afterwards enriched, carries the returned
\* description and, when the embedding call succeeded, the name's embedding.
C32_WorkerEnrichesTheStoredRow ==
    [][ last_op'.op = "enrich_entities_in_background" =>
          \A e \in entities :
             (e.name \in Range(probe'.report.stored) /\ ~e.is_enriched) =>
                \E e2 \in entities' :
                   /\ e2.id = e.id
                   /\ e2.is_enriched
                   /\ e2.web_description = GenericDescription
                   /\ probe'.embeddings_ok => e2.embedding = NameEmbedding(e.name) ]_vars

(* ----------------- the retry decorator of enrich_entity ---------------- *)

\* stop_after_attempt(3)
stop_after_attempt == 3

\* what the agent can answer to one attempt: the three failures, a body that
\* is no dict, an empty output, an answer with a description
AttemptResponses ==
    [raises : {"TimeoutException", "HTTPStatusError", "JSONDecodeError"}]
    \cup { [json |-> "list"], [json |-> "dict", output |-> <<>>],
           [json |-> "dict",
            output |-> <<[type |-> "message.answer",
                          text |-> <<[label |-> "Description:", rest |-> "tool"]>>]>>] }

RECURSIVE retry(_, _, _, _)
\* tenacity's @retry around enrich_entity: the function is called again when
\* it raised httpx.HTTPError or httpx.TimeoutException and fewer than
\* stop_after_attempt attempts were made; anything else ends the call
retry(entity_name, tab_id, agent_responses, attempt_number) ==
    LET Decide(r) ==
          IF /\ r.raised \in {"TimeoutException", "HTTPStatusError"}
             /\ attempt_number < stop_after_attempt
          THEN retry(entity_name, tab_id, agent_responses, attempt_number + 1)
          ELSE [outcome |-> r, attempts |-> attempt_number]
    IN  Decide(enrich_entity(entity_name, tab_id, agent_responses[attempt_number]))

InitRetry ==
    /\ Idle
    /\ probe \in [fn : {"retry"}, entity_name : EntityNames,
                  agent_responses : [1..stop_after_attempt -> AttemptResponses],
                  done : {FALSE}]

\* one call of the decorated enrich_entity; the agent answers the attempts
\* as drawn
EnrichEntityRetried ==
    /\ probe.fn = "retry"
    /\ ~probe.done
    /\ probe' = [probe EXCEPT !.done = TRUE] @@
                retry(probe.entity_name, NoTab, probe.agent_responses, 1)
    /\ StayIdle

NextRetry ==
    \/ EnrichEntityRetried

SpecRetry == InitRetry /\ [][NextRetry]_vars

\* C33: within one enrich_entity invocation, an agent call that fails with a
\* timeout or an HTTP error is followed by another attempt as long as fewer
\* than three attempts were made; never more than three attempts are made,
\* and after three such failures the empty record is returned.
C33_TransientFailuresAreRetried ==
    (probe.fn = "retry" /\ probe.done) =>
       /\ probe.attempts <= stop_after_attempt
       /\ \A i \in 1..(stop_after_attempt - 1) :
             ( /\ probe.attempts >= i
               /\ "raises" \in DOMAIN probe.agent_responses[i]
               /\ probe.agent_responses[i].raises
                     \in {"TimeoutException", "HTTPStatusError"} )
             => probe.attempts >= i + 1
       /\ probe.outcome.raised = ""

(* ------------------- C34: extraction is never empty -------------------- *)

\* C34: whatever the model returns and whatever the titles and urls are,
\* entity extraction ends with a list for every tab and none of these lists
\* is empty (a single tab is the extract_entities case).
C34_ExtractionNeverEmpty ==
    (probe.fn = "extract_entities_batch" /\ probe.done) =>
       /\ probe.outcome.raised = ""
       /\ \A i \in 1..Len(probe.tabs) : Len(probe.outcome.value[i]) >= 1

(* ----------------- external calls failing during ingest ---------------- *)

\* POST /api/tabs/ingest while outside services may fail: the embedding
\* call, the enrichment agent, the naming model. generate_embeddings_batch
\* re-raises a failure, which nothing on the way to the response catches:
\* the request then ends after reconciliation, with status 500
IngestDegraded ==
    /\ requests < MaxRequests
    /\ requests' = requests + 1
    /\ \E batch \in { b \in UncachedBatches : Len(b) < MaxBatch },
          agent \in { a \in AgentAnswers : a["a"] # DefaultEntityType },
          embeddings_ok \in BOOLEAN,
          naming \in { n \in NamingAnswers :
                         /\ n.theme = "same"
                         /\ n.batch \in {"names", "raises"}
                         /\ (n.single = "raises") = (n.batch = "raises") } :
      \E closing \in Orders(DbActiveTabs(World) \ BatchIds(batch)) :
      \E raised \in { ~embeddings_ok /\ \E i \in 1..Len(batch) :
                                           batch[i].embedding = NoEmbedding } :
      \E W \in { IF raised THEN reconcile_closed_tabs(World, closing)
                 ELSE process_tabs_batch(reconcile_closed_tabs(World, closing),
                                         batch, agent, naming) } :
        LET processed == extract_missing([w |-> World, batch |-> batch]).batch
            names == UNION { Range(processed[i].entities) : i \in 1..Len(processed) }
        IN /\ Fits(W)
           /\ Install(W)
           /\ background_tasks' =
                 IF enable_background_enrichment /\ names # {} /\ ~raised
                 THEN background_tasks \cup {names}
                 ELSE background_tasks
           /\ last_op' = Op("ingest", batch, closing)
           /\ probe' = [fn |-> "ingest_tabs", raised |-> raised,
                        embeddings_ok |-> embeddings_ok, agent |-> agent,
                        naming |-> naming]
           /\ UNCHANGED event_loop

NextDegraded ==
    \/ IngestDegraded

SpecDegraded == Init /\ [][NextDegraded]_vars

\* C35: whichever outside call fails during an ingest (embedding, naming,
\* enrichment), the request completes without an error and every tab of the
\* batch is then a member of a live cluster.
C35_FailuresDoNotBlockClustering ==
    probe.fn = "ingest_tabs" =>
       /\ ~probe.raised
       /\ \A i \in 1..Len(last_op.batch) :
             \E k \in 1..Len(clusters) :
                \E j \in 1..Len(clusters[k].tabs) :
                   clusters[k].tabs[j].id = last_op.batch[i].id

(* ------------- a background task racing with an ingest ----------------- *)

\* the ingest handler and one task thread, each at a position between two
\* store statements; raced records that the task wrote the row of the very
\* name the handler was storing
NoRace ==
    [fn |-> "race",
     ingest |-> [pc |-> "idle", batch |-> <<>>, closing |-> <<>>,
                 agent |-> NoAnswer, t |-> 0, e |-> 0, entity_id |-> 0,
                 clusters_before |-> {}],
     worker |-> [pc |-> "idle", to_enrich |-> <<>>, i |-> 0, agent |-> NoAnswer,
                 embeddings_ok |-> FALSE],
     raced |-> FALSE]

InitRace ==
    /\ Idle
    /\ probe = NoRace

\* the batches of the racing ingests: pages that mention "a", or "a" and "b"
RaceBatches ==
    { b \in Batches : Len(b) < MaxBatch /\ \A i \in 1..Len(b) : b[i].embedding[1] = 1 }

\* the name the handler is storing
RaceName == probe.ingest.batch[probe.ingest.t].entities[probe.ingest.e]

\* the other variables of a step of the handler or of the task
RaceStep(W) ==
    /\ Fits(W)
    /\ Install(W)
    /\ UNCHANGED event_loop

\* POST /api/tabs/ingest arrives: the active tabs are read
RaceArrives ==
    /\ probe.ingest.pc = "idle"
    /\ requests < MaxRequests
    /\ requests' = requests + 1
    /\ \E batch \in RaceBatches, agent \in AgentAnswers :
      \E closing \in Orders(DbActiveTabs(World) \ BatchIds(batch)) :
         probe' = [probe EXCEPT !.ingest.pc = "reconcile", !.ingest.batch = batch,
                                !.ingest.closing = closing, !.ingest.agent = agent]
    /\ RaceStep(World)
    /\ UNCHANGED <<background_tasks, last_op>>

\* the reconciliation loop: close_tab and clusterer.remove_tab per closed tab
RaceReconciles ==
    /\ probe.ingest.pc = "reconcile"
    /\ RaceStep(Reconcile(World, probe.ingest.closing))
    /\ probe' = [probe EXCEPT !.ingest.pc = "collect"]
    /\ UNCHANGED <<background_tasks, last_op, requests>>

\* remove_orphaned_entities when a tab was closed; process_tabs_batch begins
RaceCollects ==
    /\ probe.ingest.pc = "collect"
    /\ RaceStep(IF Len(probe.ingest.closing) > 0 THEN DbRemoveOrphanedEntities(World)
                ELSE World)
    /\ probe' = [probe EXCEPT
                    !.ingest.pc = IF probe.ingest.batch = <<>> THEN "name" ELSE "assign",
                    !.ingest.t = 1,
                    !.ingest.clusters_before = { clusters[i].id : i \in 1..Len(clusters) }]
    /\ UNCHANGED <<background_tasks, last_op, requests>>

\* the next tab is assigned in memory and _store_tab_in_graph writes its row
RaceAssigns ==
    /\ probe.ingest.pc = "assign"
    /\ LET tab == probe.ingest.batch[probe.ingest.t]
           Engine(A) == [DbAddTab(World, tab.id) EXCEPT
                            !.clusters = A.clusters,
                            !.next_color_index = A.next_color_index,
                            !.rename_threshold = A.rename_threshold,
                            !.next_cluster_id = A.next_cluster_id]
       IN  RaceStep(Engine(AssignAll(World, <<tab>>, probe.ingest.agent)))
    /\ probe' = [probe EXCEPT !.ingest.pc = "find", !.ingest.e = 1]
    /\ UNCHANGED <<background_tasks, last_op, requests>>

\* find_entity_by_name for the next name of the tab, and the context lookup
RaceFinds ==
    /\ probe.ingest.pc = "find"
    /\ LET found == DbFindEntityByName(World, RaceName)
           tab == probe.ingest.batch[probe.ingest.t]
       IN  probe' = [probe EXCEPT
                        !.ingest.entity_id = found,
                        !.ingest.pc = IF found = 0 THEN "add"
                                      ELSE IF <<found, tab.id>> \notin entity_tab_contexts
                                      THEN "enrich" ELSE "link"]
    /\ RaceStep(World)
    /\ UNCHANGED <<background_tasks, last_op, requests>>

\* add_entity for a name that was not found: the new row's id, or, when the
\* INSERT OR IGNORE was ignored, cursor.lastrowid, which is then the rowid of
\* whatever the connection inserted last
RaceAdds ==
    /\ probe.ingest.pc = "add"
    /\ IF \E x \in entities : x.name = RaceName /\ x.entity_type = DefaultEntityType
       THEN /\ \E lastrowid \in 1..MaxEntityId :
                  probe' = [probe EXCEPT !.ingest.entity_id = lastrowid,
                                         !.ingest.pc = "enrich"]
            /\ RaceStep(World)
       ELSE /\ probe' = [probe EXCEPT !.ingest.entity_id = next_entity_id,
                                      !.ingest.pc = "enrich"]
            /\ RaceStep(DbAddEntity(World, RaceName, DefaultEntityType, FALSE,
                                    NoEmbedding))
    /\ UNCHANGED <<background_tasks, last_op, requests>>

\* _enrich_entity_async for the name in the context of the tab
RaceEnriches ==
    /\ probe.ingest.pc = "enrich"
    /\ RaceStep(_enrich_entity_async(World, probe.ingest.entity_id, RaceName,
                                     probe.ingest.batch[probe.ingest.t],
                                     probe.ingest.agent))
    /\ probe' = [probe EXCEPT !.ingest.pc = "link"]
    /\ UNCHANGED <<background_tasks, last_op, requests>>

\* link_tab_to_entity; after the tab's last name its relationships are stored
RaceLinks ==
    /\ probe.ingest.pc = "link"
    /\ LET tab == probe.ingest.batch[probe.ingest.t]
           last_name == probe.ingest.e = Len(tab.entities)
           last_tab == probe.ingest.t = Len(probe.ingest.batch)
           Relate(W) == IF last_name THEN DbComputeAndStoreTabRelationships(W, tab.id)
                        ELSE W
       IN  /\ RaceStep(Relate(DbLinkTabToEntity(World, tab.id, probe.ingest.entity_id)))
           /\ probe' = [probe EXCEPT
                           !.ingest.pc = IF ~last_name THEN "find"
                                         ELSE IF ~last_tab THEN "assign" ELSE "name",
                           !.ingest.e = IF last_name THEN 0 ELSE @ + 1,
                           !.ingest.t = IF last_name /\ ~last_tab THEN @ + 1 ELSE @]
    /\ UNCHANGED <<background_tasks, last_op, requests>>

\* the naming pass of process_tabs_batch, the task is queued, the response
RaceResponds ==
    /\ probe.ingest.pc = "name"
    /\ LET batch == probe.ingest.batch
           to_name == clusters_to_name(clusters, probe.ingest.clusters_before)
           new_names == generate_cluster_names_batch(to_name, GoodNaming)
           Named(W) == [W EXCEPT !.clusters =
                           [k \in 1..Len(W.clusters) |->
                              IF \E j \in 1..Len(to_name) : to_name[j].id = W.clusters[k].id
                              THEN [W.clusters[k] EXCEPT
                                      !.name = new_names[CHOOSE j \in 1..Len(to_name) :
                                                   to_name[j].id = W.clusters[k].id],
                                      !.tabs_added_since_naming = 0]
                              ELSE W.clusters[k]]]
           names == UNION { Range(batch[i].entities) : i \in 1..Len(batch) }
       IN  /\ RaceStep(Named(World))
           /\ background_tasks' =
                 IF enable_background_enrichment /\ names # {}
                 THEN background_tasks \cup {names}
                 ELSE background_tasks
           /\ last_op' = Op("ingest", batch, probe.ingest.closing)
    /\ probe' = [probe EXCEPT !.ingest = NoRace.ingest]
    /\ UNCHANGED requests

\* a queued task starts: it reads the rows of its names and asks the agent
\* for those without an enriched row
WorkerReads ==
    /\ probe.worker.pc = "idle"
    /\ \E task \in background_tasks, embeddings_ok \in BOOLEAN,
          agent \in AgentAnswers :
         LET enriched_names == { e.name : e \in { x \in entities :
                                    x.name \in task /\ x.is_enriched } }
             to_enrich == SeqOfSet(task \ enriched_names)
         IN  /\ background_tasks' = background_tasks \ {task}
             /\ probe' = [probe EXCEPT
                            !.worker = [pc |-> IF to_enrich = <<>> THEN "idle" ELSE "store",
                                        to_enrich |-> to_enrich, i |-> 1, agent |-> agent,
                                        embeddings_ok |-> embeddings_ok]]
    /\ RaceStep(World)
    /\ UNCHANGED <<last_op, requests>>

\* the task's add_entity for its next name
WorkerWrites ==
    /\ probe.worker.pc = "store"
    /\ LET name == probe.worker.to_enrich[probe.worker.i]
           answer == probe.worker.agent[name]
           last_name == probe.worker.i = Len(probe.worker.to_enrich)
       IN  /\ RaceStep(IF answer = "fail" THEN World
                       ELSE DbAddEntity(World, name, answer, TRUE,
                                        IF probe.worker.embeddings_ok
                                        THEN NameEmbedding(name) ELSE NoEmbedding))
           /\ probe' = [probe EXCEPT
                           !.worker = IF last_name THEN NoRace.worker
                                      ELSE [@ EXCEPT !.i = @ + 1],
                           !.raced = @ \/ ( /\ answer # "fail"
                                            /\ probe.ingest.pc \in {"add", "enrich", "link"}
                                            /\ RaceName = name )]
    /\ UNCHANGED <<background_tasks, last_op, requests>>

NextRace ==
    \/ RaceArrives
    \/ RaceReconciles
    \/ RaceCollects
    \/ RaceAssigns
    \/ RaceFinds
    \/ RaceAdds
    \/ RaceEnriches
    \/ RaceLinks
    \/ RaceResponds
    \/ WorkerReads
    \/ WorkerWrites

SpecRace == InitRace /\ [][NextRace]_vars

\* C36: however the steps of a background enrichment task interleave with
\* those of an ingest, the store never holds two entity rows of one name and
\* type, and once the ingest has responded every entity name of every tab of
\* its batch has a row that is linked to that tab.
C36_RaceWithIngestIsBenign ==
    /\ \A e1, e2 \in entities :
          (e1.name = e2.name /\ e1.entity_type = e2.entity_type) => e1.id = e2.id
    /\ (probe.fn = "race" /\ probe.ingest.pc = "idle" /\ last_op.op = "ingest") =>
          \A i \in 1..Len(last_op.batch) :
             \A name \in Range(last_op.batch[i].entities) :
                \E e \in entities : /\ e.name = name
                                    /\ <<last_op.batch[i].id, e.id>> \in tab_entities

\* a second ingest has responded, and while it was storing a name between
\* its lookup and its link the task wrote a row of that name
C36_Witness ==
    /\ probe.fn = "race"
    /\ probe.raced
    /\ probe.ingest.pc = "idle"
    /\ probe.worker.pc = "idle"
    /\ requests = 2
    /\ last_op.op = "ingest"
    /\ \E e1, e2 \in entities : e1.name = e2.name /\ e1.id # e2.id

(* ------------- a store failure during the assignment loop -------------- *)

\* TabClusterer.create_new_cluster when graph_db.add_tab raises inside
\* add_tab_to_cluster: the colour is taken and the threshold is set, the
\* lines after add_tab_to_cluster (restore, append) are not reached
create_new_cluster_raises(W, defer_naming) ==
    [W EXCEPT !.next_color_index = _get_next_color(W),
              !.next_cluster_id = @ + 1,
              !.rename_threshold =
                  IF defer_naming THEN deferred_rename_threshold ELSE @]

\* TabClusterer.add_tab_to_cluster on a live cluster when graph_db.add_tab
\* raises: the cluster object already holds the tab
add_tab_to_cluster_raises(W, i, tab) ==
    [W EXCEPT !.clusters[i] =
        _update_cluster_shared_entities(update_centroid(add_tab(@, tab), W))]

RECURSIVE AssignAllRaises(_, _, _, _)
\* the assignment loop of process_tabs_batch when the store raises for the
\* tab at position fault_at: the exception leaves the loop
AssignAllRaises(W, batch, agent, fault_at) ==
    LET tab == Head(batch)
        Assign(best_cluster) ==
            IF best_cluster # 0 THEN AddToLive(W, best_cluster, tab, agent)
            ELSE create_new_cluster(W, tab, "", TRUE, agent)
        Raise(best_cluster) ==
            IF best_cluster # 0 THEN add_tab_to_cluster_raises(W, best_cluster, tab)
            ELSE create_new_cluster_raises(W, TRUE)
    IN  IF fault_at = 1 THEN Raise(find_best_cluster(W, tab))
        ELSE AssignAllRaises(Assign(find_best_cluster(W, tab)), Tail(batch), agent,
                             fault_at - 1)

\* POST /api/tabs/ingest during which a statement of the store raises (for
\* instance sqlite3.OperationalError: database is locked): nothing catches
\* it, the request ends with an error and the engine stays as it was left
IngestStoreFails ==
    /\ requests < MaxRequests
    /\ requests' = requests + 1
    /\ \E batch \in { b \in Batches : 0 < Len(b) /\ Len(b) < MaxBatch },
          agent \in AgentAnswers :
      \E fault_at \in 1..Len(batch) :
      \E closing \in Orders(DbActiveTabs(World) \ BatchIds(batch)) :
      \E W \in { AssignAllRaises(reconcile_closed_tabs(World, closing), batch, agent,
                                 fault_at) } :
           /\ Fits(W)
           /\ Install(W)
           /\ last_op' = Op("ingest_raised", batch, closing)
           /\ probe' = [fn |-> "ingest_tabs", raised |-> TRUE, fault_at |-> fault_at]
           /\ UNCHANGED <<background_tasks, event_loop>>

NextAborted ==
    \/ IngestPages
    \/ IngestStoreFails

SpecAborted == Init /\ [][NextAborted]_vars

\* C37: between requests, that is whenever no create_new_cluster call is in
\* progress, the engine's rename_threshold is the configured one, also after
\* an ingest whose create_new_cluster(defer_naming=True) was aborted by a
\* failure of the graph store.
C37_RenameThresholdIsRestored ==
    rename_threshold = configured_rename_threshold

(* ------------- membership after a sequence of ingests ------------------ *)

\* the number of ingests in a sequence
MaxIngests == 3

\* POST /api/tabs/ingest, one of a sequence of up to MaxIngests; members
\* records what the engine held when the request arrived: whether every
\* member of a cluster was stored as an active tab, and whether some tab was
\* a member of two clusters
IngestAgain ==
    /\ requests < MaxIngests
    /\ requests' = requests + 1
    /\ \E batch \in { b \in Batches : Len(b) < MaxBatch }, agent \in {NoAnswer} :
      \E closing \in Orders(DbActiveTabs(World) \ BatchIds(batch)) :
      \E W \in { ingest_tabs(World, batch, closing, agent) } :
        LET names == UNION { Range(batch[i].entities) : i \in 1..Len(batch) }
            held == UNION Membership
        IN /\ Fits(W)
           /\ Install(W)
           /\ background_tasks' =
                 IF enable_background_enrichment /\ names # {}
                 THEN background_tasks \cup {names}
                 ELSE background_tasks
           /\ last_op' = Op("ingest", batch, closing)
           /\ probe' = [fn |-> "ingest_tabs",
                        members |-> [held |-> held,
                                     active |-> held \subseteq DbActiveTabs(World),
                                     twice |-> { t \in held :
                                                   Cardinality(ClustersOf(t)) > 1 }]]
           /\ UNCHANGED event_loop

NextMembership ==
    \/ IngestAgain

SpecMembership == Init /\ [][NextMembership]_vars

\* C38: after a completed ingest(B) that found every cluster member stored
\* as an active tab, the tab ids held by the live clusters are exactly the
\* ids of B: every tab of B is in a cluster and no other tab is.
C38_ClustersHoldExactlyTheBatch ==
    (probe.fn = "ingest_tabs" /\ last_op.op = "ingest" /\ probe.members.active) =>
       UNION Membership = BatchIds(last_op.batch)

\* C39: after a completed ingest every live cluster that holds at least two
\* tabs, that is every cluster GET /api/tabs/clusters returns, carries a
\* generated name and not the placeholder, also when it was seeded as a
\* one-tab cluster by an earlier ingest and grew in a later one.
C39_ReturnedClustersAreNamed ==
    last_op.op = "ingest" =>
       \A k \in 1..Len(clusters) :
          clusters[k].tab_count >= 2 => clusters[k].name # PlaceholderName

\* C40: after any sequence of additions (also of an id the cluster already
\* holds) and removals, every cluster of the engine has tab_count equal to
\* the length of its tab list, and no tab id twice in that list.
C40_TabCountIsListLength ==
    \A k \in 1..Len(clusters) :
       /\ clusters[k].tab_count = Len(clusters[k].tabs)
       /\ \A i, j \in 1..Len(clusters[k].tabs) :
             clusters[k].tabs[i].id = clusters[k].tabs[j].id => i = j

\* a tab was added to a cluster of two or more tabs that already held its id,
\* and the list is as long as before
C40_Witness ==
    /\ last_op.op = "add_tab_to_cluster"
    /\ last_op.size_before >= 2
    /\ \E k \in 1..Len(clusters) :
          /\ clusters[k].id = last_op.cluster
          /\ last_op.batch[1].id \in Members(clusters[k])
          /\ Len(clusters[k].tabs) = last_op.size_before
          /\ clusters[k].tab_count = last_op.size_before

=============================================================================
